---- MODULE Spec2Model ----
(***************************************************************************)
(* PoliTerm orchestrator (proto/poli_orchestrator_v3.py): the block codec  *)
(* find_blocks, the two polling waits, the continuous dialogue loop        *)
(* route_continuous (driven by interactive_mode) and the Monitor loop      *)
(* monitor_planner, over two tmux panes that the agents append blocks to.  *)
(***************************************************************************)
EXTENDS Integers, Sequences, FiniteSets, TLC

VARIABLES
    mode,           \* "continuous" (--task), "interactive" or "monitor" (--monitor)
    max_rounds,     \* the --max-rounds argument
    pc,             \* position of the single control flow
    pane,           \* [party -> sequence of items visible to capture_tail]
    STATE_TABLE,    \* task id -> TaskState
    seen_messages,  \* set of <<id, type>>
    INTERRUPTED,    \* the process-wide flag
    task_id,        \* local of route_continuous / monitor_planner
    round_count,    \* local of route_continuous
    task_complete,  \* local of route_continuous
    planner_msg,    \* Optional[PoliMessage]: <<>> or <<msg>>
    result_msg,     \* Optional[PoliMessage]: <<>> or <<msg>>
    elapsed,        \* time.time() - start_time of the wait in progress, in poll intervals
    last_nudge,     \* last_nudge_time - start_time of the wait in progress
    sent,           \* [party -> sequence of the writes send_keys made to that pane]
    returned,       \* every message a wait returned to the engine, in order
    polled,         \* every capture_tail made, in order: [party, task]
    run,            \* number of seen_messages sets created so far
    emitted,        \* number of blocks the agents have rendered so far
    summary,        \* the summary line printed at the end of route_continuous
    ret,            \* return value of the last route_continuous: <<>> or <<BOOLEAN>>
    buffer,         \* codec harness: the transcript handed to find_blocks
    blocks,         \* codec harness: what find_blocks returned for it
    keys,           \* send_keys harness: [party -> the tmux send-keys calls made on its pane]
    pending,        \* send_keys harness: the lines of the text being sent not yet submitted
    answered        \* obedient-Executer harness: number of answers Executer has rendered

vars == <<mode, max_rounds, pc, pane, STATE_TABLE, seen_messages, INTERRUPTED, task_id,
          round_count, task_complete, planner_msg, result_msg, elapsed,
          last_nudge, sent, returned, polled, run, emitted, summary, ret,
          buffer, blocks, keys, pending, answered>>

(***************************************************************************)
(* Bounds of the model.                                                    *)
(***************************************************************************)
MaxRounds == 2      \* largest --max-rounds argument
MaxEmit == 4        \* blocks the two agents render in one behaviour
MaxBuf == 3         \* items of a transcript handed to the codec harness
MaxRuns == 2        \* calls of route_continuous with a given task id in one process
MaxWrites == 2      \* send_keys calls in one behaviour of the send_keys harness
MaxLines == 3       \* lines of a text handed to send_keys

(***************************************************************************)
(* Configuration read from the environment.  Time is counted in poll       *)
(* intervals (POLL_INTERVAL = 1) and the capture window in items.          *)
(***************************************************************************)
PLAN_TIMEOUT == 5
EXEC_TIMEOUT == 2
CAPTURE_LINES == 2

PLANNER == "PLANNER"
EXECUTER == "EXECUTER"
Party == {PLANNER, EXECUTER}

PLANNER_PANE == PLANNER
EXECUTER_PANE == EXECUTER

\* class MessageType
MessageType == {"plan", "result", "status", "error", "complete", "continue", "revision"}

TaskIds == {"a", "b"}

\* dataclass PoliMessage (body and timestamp are not modelled here)
PoliMessage(to, type, id) == [to |-> to, type |-> type, id |-> id]

Key(msg) == <<msg.id, msg.type>>

(***************************************************************************)
(* Transcript items.  k = "block": an opening marker with its metadata, a   *)
(* body and a closing marker (ok: the metadata parses as JSON).             *)
(* k = "open": a block rendered up to somewhere in its body (no closing     *)
(* marker yet).  k = "cut": an opening marker cut inside its metadata.      *)
(***************************************************************************)
Item(k, ok, to, type, id) == [k |-> k, ok |-> ok, to |-> to, type |-> type, id |-> id]
Blk(to, type, id) == Item("block", TRUE, to, type, id)
Malformed == Item("block", FALSE, "", "", "")
OpenOnly(to, type, id) == Item("open", TRUE, to, type, id)
CutMeta == Item("cut", FALSE, "", "", "")

(***************************************************************************)
(* BLOCK_RE.finditer(buffer): the regex pairs an opening marker with the   *)
(* first closing marker after it (both groups are lazy, DOTALL), so an      *)
(* unclosed opening marker swallows what follows up to the next closing    *)
(* marker; an opening marker cut inside its metadata takes everything up   *)
(* to the next "}]]" as its metadata.  pend is <<>> or <<the opening item  *)
(* the scan is inside>>.  Each match is an item: ok says whether            *)
(* json.loads accepts group(1).                                            *)
(***************************************************************************)
RECURSIVE finditer(_, _, _)
finditer(buf, i, pend) ==
    IF i > Len(buf) THEN <<>>
    ELSE LET it == buf[i] IN
         IF pend = <<>>
         THEN IF it.k = "block"
              THEN <<it>> \o finditer(buf, i + 1, <<>>)
              ELSE finditer(buf, i + 1, <<it>>)
         ELSE LET p == pend[1] IN
              IF it.k = "block"
              THEN <<[p EXCEPT !.k = "block"]>> \o finditer(buf, i + 1, <<>>)
              ELSE IF p.k = "cut" /\ it.k = "open"
                   THEN finditer(buf, i + 1, <<Item("open", FALSE, "", "", "")>>)
                   ELSE finditer(buf, i + 1, pend)

BLOCK_RE(buf) == finditer(buf, 1, <<>>)

RECURSIVE ParsedBlocksAbort(_)
ParsedBlocksAbort(ms) ==
    IF ms = <<>> THEN <<>>
    ELSE LET m == Head(ms) IN
         IF m.ok THEN <<PoliMessage(m.to, m.type, m.id)>> \o ParsedBlocksAbort(Tail(ms))
         ELSE <<>>

\* the try body of find_blocks: one PoliMessage per match whose metadata parses
RECURSIVE ParsedBlocks(_)
ParsedBlocks(ms) ==
    IF ms = <<>> THEN <<>>
    ELSE LET m == Head(ms) IN
         (IF m.ok THEN <<PoliMessage(m.to, m.type, m.id)>> ELSE <<>>)
             \o ParsedBlocks(Tail(ms))

find_blocks_first(buf) ==
    LET bl == ParsedBlocks(BLOCK_RE(buf)) IN
    IF Len(bl) > 1 THEN <<bl[1]>> ELSE bl

find_blocks(buf) ==
    LET bl == ParsedBlocks(BLOCK_RE(buf)) IN
    IF Len(bl) > 1 THEN <<bl[Len(bl)]>> ELSE bl

\* capture_tail: the last CAPTURE_LINES lines of the pane
capture_tail(target) == pane[target]

\* what an agent rendering one more item leaves visible in the capture window
Render(p, it) ==
    LET s == Append(p, it) IN
    IF Len(s) > CAPTURE_LINES THEN Tail(s) ELSE s

(***************************************************************************)
(* TaskState and the state table.                                          *)
(***************************************************************************)
NoTask == ""        \* task_id=None

TaskState(t, from, type) ==
    [task_id |-> t, expected_from |-> from, expected_type |-> type,
     round |-> 0, status |-> "active", messages |-> <<>>]

\* STATE_TABLE[t] = st
SetTask(tbl, t, st) ==
    [x \in (DOMAIN tbl) \cup {t} |-> IF x = t THEN st ELSE tbl[x]]

ensure_task_state_reset(tbl, t) == SetTask(tbl, t, TaskState(t, PLANNER, "plan"))

ensure_task_state(tbl, t) ==
    IF t \notin DOMAIN tbl
    THEN SetTask(tbl, t, TaskState(t, PLANNER, "plan"))
    ELSE tbl

\* one write of send_keys: what is written, for which task, quoting which block
Write(what, t, quote) == [what |-> what, task |-> t, quote |-> quote]

send_keys(log, target, w) == [log EXCEPT ![target] = Append(@, w)]

\* a message handed back by a wait
\* the status a task has when a pane is read on its behalf
StatusOf(t) == IF t \in DOMAIN STATE_TABLE THEN STATE_TABLE[t].status ELSE "none"

\* the party the engine expects a block from for task t (a new task: PLANNER)
ExpectedFrom(t) ==
    IF t \in DOMAIN STATE_TABLE THEN STATE_TABLE[t].expected_from ELSE PLANNER

\* a message handed back by a wait, with the task's state at that moment
Returned(from, t, msg) ==
    [from |-> from, task |-> t, run |-> run, key |-> Key(msg), to |-> msg.to,
     st |-> StatusOf(t), exp |-> ExpectedFrom(t)]

Poll(target, t) == polled \cup {<<target, t, StatusOf(t)>>}

PlannerTypesWithResult == {"plan", "continue", "revision", "complete", "result"}

\* expected_types=["plan", "continue", "revision", "complete"]
PlannerTypes == {"plan", "continue", "revision", "complete"}

(***************************************************************************)
(* The tests of the two waits.                                             *)
(***************************************************************************)
IsNewAlways(msg, seen) == TRUE

IsNewById(msg, seen) == \A k \in seen : k[1] # msg.id

\* (msg.id, msg.type) not in seen_messages
IsNew(msg, seen) == Key(msg) \notin seen

MarkSeenNot(seen, msg) == seen

\* seen_messages.add((msg.id, msg.type))
MarkSeen(seen, msg) == seen \cup {Key(msg)}

\* wait_for_new_block, the test of one decoded block
Qualifies(msg, seen, expected_types) ==
    /\ msg.id # ""
    /\ IsNew(msg, seen)
    /\ msg.type \in expected_types

TimeLeftInclusive(el, timeout) == el <= timeout

\* time.time() - start_time < timeout
TimeLeft(el, timeout) == el < timeout

NudgeDueSinceStart(enable_nudge, timeout) ==
    enable_nudge /\ 3 * elapsed > timeout

\* time.time() - last_nudge_time > timeout / 3
NudgeDue(enable_nudge, timeout) ==
    enable_nudge /\ 3 * (elapsed - last_nudge) > timeout

(***************************************************************************)
(* wait_for_new_block: one iteration of its loop, and its exit on timeout. *)
(* tid is the task_id argument (NoTask in Monitor mode).  The clocks of a  *)
(* wait are its locals: they are cleared when it returns.                  *)
(***************************************************************************)
wait_for_new_block_poll(target, expected_types, tid, enable_nudge, timeout, here, after) ==
    /\ pc = here
    /\ TimeLeft(elapsed, timeout) /\ ~INTERRUPTED
    /\ polled' = Poll(target, tid)
    /\ LET bl == find_blocks(capture_tail(target)) IN
       IF bl # <<>> /\ Qualifies(bl[1], seen_messages, expected_types)
       THEN LET msg == bl[1] IN
            /\ STATE_TABLE' =
                 IF tid # NoTask /\ tid \in DOMAIN STATE_TABLE
                 THEN [STATE_TABLE EXCEPT ![tid].messages = Append(@, msg)]
                 ELSE STATE_TABLE
            /\ seen_messages' = MarkSeen(seen_messages, msg)
            /\ planner_msg' = <<msg>>
            /\ returned' = Append(returned,
                                  Returned(PLANNER, IF tid = NoTask THEN msg.id ELSE tid, msg))
            /\ pc' = after
            /\ elapsed' = 0
            /\ last_nudge' = 0
            /\ UNCHANGED sent
       ELSE /\ sent' = IF NudgeDue(enable_nudge, timeout)
                       THEN send_keys(sent, target, Write("nudge", tid, <<>>))
                       ELSE sent
            /\ last_nudge' = IF NudgeDue(enable_nudge, timeout) THEN elapsed ELSE last_nudge
            /\ elapsed' = elapsed + 1
            /\ UNCHANGED <<STATE_TABLE, seen_messages, planner_msg, returned, pc>>
    /\ UNCHANGED <<answered, keys, pending, mode, max_rounds, pane, INTERRUPTED, task_id, round_count, task_complete,
                   result_msg, run, emitted, summary, ret, buffer, blocks>>

wait_for_new_block_timeout(timeout, here, after) ==
    /\ pc = here
    /\ ~(TimeLeft(elapsed, timeout) /\ ~INTERRUPTED)
    /\ planner_msg' = <<>>
    /\ pc' = after
    /\ elapsed' = 0
    /\ last_nudge' = 0
    /\ UNCHANGED <<answered, keys, pending, mode, max_rounds, pane, STATE_TABLE, seen_messages, INTERRUPTED, task_id,
                   round_count, task_complete, result_msg,
                   sent, returned, polled, run, emitted, summary, ret, buffer, blocks>>

wait_for_executor_result_poll_any(here, after) ==
    /\ pc = here
    /\ TimeLeft(elapsed, EXEC_TIMEOUT) /\ ~INTERRUPTED
    /\ polled' = Poll(EXECUTER_PANE, task_id)
    /\ LET bl == find_blocks(capture_tail(EXECUTER_PANE)) IN
       IF bl # <<>> /\ IsNew(bl[1], seen_messages)
       THEN LET msg == bl[1] IN
            /\ seen_messages' = MarkSeen(seen_messages, msg)
            /\ STATE_TABLE' = [STATE_TABLE EXCEPT ![task_id].messages = Append(@, msg)]
            /\ IF msg.type \in {"result", "error", "status"}
               THEN /\ result_msg' = <<msg>>
                    /\ returned' = Append(returned, Returned(EXECUTER, task_id, msg))
                    /\ pc' = after
                    /\ elapsed' = 0
               ELSE /\ elapsed' = elapsed + 1
                    /\ UNCHANGED <<result_msg, returned, pc>>
       ELSE /\ elapsed' = elapsed + 1
            /\ UNCHANGED <<seen_messages, STATE_TABLE, result_msg, returned, pc>>
    /\ UNCHANGED <<answered, keys, pending, mode, max_rounds, pane, INTERRUPTED, task_id, round_count, task_complete,
                   planner_msg, last_nudge, sent, run, emitted, summary, ret,
                   buffer, blocks>>

(***************************************************************************)
(* wait_for_executor_result: one iteration of its loop, and its exit.      *)
(* task_state is STATE_TABLE[task_id].                                     *)
(***************************************************************************)
wait_for_executor_result_poll(here, after) ==
    /\ pc = here
    /\ TimeLeft(elapsed, EXEC_TIMEOUT) /\ ~INTERRUPTED
    /\ polled' = Poll(EXECUTER_PANE, task_id)
    /\ LET bl == find_blocks(capture_tail(EXECUTER_PANE)) IN
       IF bl # <<>> /\ IsNew(bl[1], seen_messages)
       THEN LET msg == bl[1] IN
            /\ seen_messages' = MarkSeen(seen_messages, msg)
            /\ STATE_TABLE' = [STATE_TABLE EXCEPT ![task_id].messages = Append(@, msg)]
            /\ IF msg.type \in {"result", "error"}
               THEN /\ result_msg' = <<msg>>
                    /\ returned' = Append(returned, Returned(EXECUTER, task_id, msg))
                    /\ pc' = after
                    /\ elapsed' = 0
               ELSE /\ elapsed' = elapsed + 1
                    /\ UNCHANGED <<result_msg, returned, pc>>
       ELSE /\ elapsed' = elapsed + 1
            /\ UNCHANGED <<seen_messages, STATE_TABLE, result_msg, returned, pc>>
    /\ UNCHANGED <<answered, keys, pending, mode, max_rounds, pane, INTERRUPTED, task_id, round_count, task_complete,
                   planner_msg, last_nudge, sent, run, emitted, summary, ret,
                   buffer, blocks>>

wait_for_executor_result_timeout(here, after) ==
    /\ pc = here
    /\ ~(TimeLeft(elapsed, EXEC_TIMEOUT) /\ ~INTERRUPTED)
    /\ result_msg' = <<>>
    /\ pc' = after
    /\ elapsed' = 0
    /\ UNCHANGED <<answered, keys, pending, mode, max_rounds, pane, STATE_TABLE, seen_messages, INTERRUPTED, task_id,
                   round_count, task_complete, planner_msg, last_nudge,
                   sent, returned, polled, run, emitted, summary, ret, buffer, blocks>>

(***************************************************************************)
(* route_continuous, called by interactive_mode (uuid4 task ids) or by     *)
(* main with --task.                                                       *)
(***************************************************************************)
RoundsLeftOffByOne(rc, max) == rc <= max

\* round_count < max_rounds
RoundsLeft(rc, max) == rc < max

PlannerTimeoutStatusSwapped == "exec_timeout"

\* STATE_TABLE[task_id].status = "timeout"
PlannerTimeoutStatus == "timeout"

ExecTimeoutStatusSwapped == "timeout"

\* STATE_TABLE[task_id].status = "exec_timeout" / state.status = 'exec_timeout'
ExecTimeoutStatus == "exec_timeout"

\* str(uuid.uuid4()): an id no task has yet
uuid4 == CHOOSE t \in TaskIds \ DOMAIN STATE_TABLE : TRUE

\* route_continuous from its first line to the top of its loop, for task id t
route_continuous_entry(t) ==
    /\ task_id' = t
    /\ STATE_TABLE' = SetTask(STATE_TABLE, t, TaskState(t, PLANNER, "plan"))
    /\ sent' = send_keys(sent, PLANNER_PANE, Write("initial", t, <<>>))
    /\ seen_messages' = {}
    /\ run' = run + 1
    /\ round_count' = 0
    /\ task_complete' = FALSE
    /\ planner_msg' = <<>>
    /\ result_msg' = <<>>
    /\ summary' = ""
    /\ ret' = <<>>
    /\ pc' = "rc_loop"
    /\ UNCHANGED <<answered, keys, pending, mode, max_rounds, pane, INTERRUPTED, elapsed, last_nudge, returned, polled,
                   emitted, buffer, blocks>>

\* route_continuous(user_prompt) without a task id: main with --task, or one
\* task entered at the prompt of interactive_mode
route_continuous_begin ==
    /\ pc = "idle"
    /\ mode \in {"continuous", "interactive"}
    /\ mode = "continuous" => run = 0
    /\ TaskIds \ DOMAIN STATE_TABLE # {}
    /\ route_continuous_entry(uuid4)

\* route_continuous(user_prompt, task_id) called with an id of the caller's choice
route_continuous_given ==
    /\ pc = "idle"
    /\ mode = "calls"
    /\ run < MaxRuns
    /\ \E t \in TaskIds : route_continuous_entry(t)

\* the while test, round_count += 1, and the entry of wait_for_new_block
rc_loop ==
    /\ pc = "rc_loop"
    /\ IF RoundsLeft(round_count, max_rounds) /\ ~task_complete /\ ~INTERRUPTED
       THEN /\ round_count' = round_count + 1
            /\ STATE_TABLE' = [STATE_TABLE EXCEPT ![task_id].round = round_count + 1]
            /\ elapsed' = 0
            /\ last_nudge' = 0
            /\ pc' = "rc_pwait"
       ELSE /\ pc' = "rc_end"
            /\ UNCHANGED <<round_count, STATE_TABLE, elapsed, last_nudge>>
    /\ UNCHANGED <<answered, keys, pending, mode, max_rounds, pane, seen_messages, INTERRUPTED, task_id, task_complete,
                   planner_msg, result_msg, sent, returned, polled, run, emitted,
                   summary, ret, buffer, blocks>>

rc_planner_poll ==
    wait_for_new_block_poll(PLANNER_PANE, PlannerTypes, task_id, TRUE, PLAN_TIMEOUT,
                            "rc_pwait", "rc_pgot")

rc_planner_timeout == wait_for_new_block_timeout(PLAN_TIMEOUT, "rc_pwait", "rc_pgot")

\* from "if not planner_msg" to the entry of wait_for_executor_result
rc_after_planner ==
    /\ pc = "rc_pgot"
    /\ IF planner_msg = <<>>
       THEN /\ STATE_TABLE' = [STATE_TABLE EXCEPT ![task_id].status = PlannerTimeoutStatus]
            /\ pc' = "rc_end"
            /\ UNCHANGED <<seen_messages, task_complete, sent, elapsed, result_msg>>
       ELSE LET msg == planner_msg[1] IN
            /\ seen_messages' = seen_messages \cup {Key(msg)}
            /\ IF msg.type = "complete"
               THEN /\ task_complete' = TRUE
                    /\ STATE_TABLE' = [STATE_TABLE EXCEPT
                                         ![task_id].expected_from = EXECUTER,
                                         ![task_id].expected_type = "result",
                                         ![task_id].status = "completed"]
                    /\ sent' = send_keys(sent, PLANNER_PANE, Write("summary", task_id, <<>>))
                    /\ pc' = "rc_end"
                    /\ UNCHANGED <<elapsed, result_msg>>
               ELSE /\ STATE_TABLE' = [STATE_TABLE EXCEPT
                                         ![task_id].expected_from = EXECUTER,
                                         ![task_id].expected_type = "result"]
                    /\ sent' = send_keys(sent, EXECUTER_PANE,
                                         Write("forward", task_id, <<Key(msg)>>))
                    /\ elapsed' = 0
                    /\ result_msg' = <<>>
                    /\ pc' = "rc_ewait"
                    /\ UNCHANGED task_complete
    /\ UNCHANGED <<answered, keys, pending, mode, max_rounds, pane, INTERRUPTED, task_id, round_count, planner_msg,
                   last_nudge, returned, polled, run, emitted, summary, ret,
                   buffer, blocks>>

rc_executer_poll == wait_for_executor_result_poll("rc_ewait", "rc_egot")

rc_executer_timeout == wait_for_executor_result_timeout("rc_ewait", "rc_egot")

\* from "if not result_msg" to the end of the loop body
rc_after_executer ==
    /\ pc = "rc_egot"
    /\ IF result_msg = <<>>
       THEN /\ STATE_TABLE' = [STATE_TABLE EXCEPT ![task_id].status = ExecTimeoutStatus]
            /\ pc' = "rc_end"
            /\ UNCHANGED sent
       ELSE /\ STATE_TABLE' = [STATE_TABLE EXCEPT
                                 ![task_id].expected_from = PLANNER,
                                 ![task_id].expected_type = "continue"]
            /\ sent' = send_keys(sent, PLANNER_PANE,
                                 Write("review", task_id, <<Key(result_msg[1])>>))
            /\ pc' = "rc_loop"
    /\ UNCHANGED <<answered, keys, pending, mode, max_rounds, pane, seen_messages, INTERRUPTED, task_id, round_count,
                   task_complete, planner_msg, result_msg, elapsed, last_nudge,
                   returned, polled, run, emitted, summary, ret, buffer, blocks>>

\* the summary line printed after the loop
SummaryLine ==
    IF task_complete THEN "completed"
    ELSE IF round_count >= max_rounds THEN "max_rounds"
    ELSE IF INTERRUPTED THEN "interrupted"
    ELSE "unexpected"

rc_finish_unless_timeout ==
    /\ pc = "rc_end"
    /\ summary' = SummaryLine
    /\ ret' = <<STATE_TABLE[task_id].status \notin {"timeout", "exec_timeout"}>>
    /\ pc' = "idle"
    /\ UNCHANGED <<answered, keys, pending, mode, max_rounds, pane, STATE_TABLE, seen_messages, INTERRUPTED, task_id,
                   round_count, task_complete, planner_msg, result_msg, elapsed,
                   last_nudge, sent, returned, polled, run, emitted, buffer, blocks>>

\* the summary and "return task_complete"
rc_finish ==
    /\ pc = "rc_end"
    /\ summary' = SummaryLine
    /\ ret' = <<task_complete>>
    /\ pc' = "idle"
    /\ UNCHANGED <<answered, keys, pending, mode, max_rounds, pane, STATE_TABLE, seen_messages, INTERRUPTED, task_id,
                   round_count, task_complete, planner_msg, result_msg, elapsed,
                   last_nudge, sent, returned, polled, run, emitted, buffer, blocks>>

\* 'exit' at the prompt of interactive_mode, or sys.exit after --task
interactive_exit ==
    /\ pc = "idle"
    /\ mode \in {"continuous", "interactive"}
    /\ mode = "continuous" => run > 0
    /\ pc' = "exited"
    /\ UNCHANGED <<answered, keys, pending, mode, max_rounds, pane, STATE_TABLE, seen_messages, INTERRUPTED, task_id,
                   round_count, task_complete, planner_msg, result_msg, elapsed,
                   last_nudge, sent, returned, polled, run, emitted, summary, ret,
                   buffer, blocks>>

(***************************************************************************)
(* monitor_planner, with forward_instruction_to_executer and               *)
(* send_result_to_planner.                                                 *)
(***************************************************************************)
MonRoundsExhaustedOffByOne(round, max) == round > max

\* state.round >= max_rounds
MonRoundsExhausted(round, max) == round >= max

\* f'planner_{planner_msg.type}'
PlannerStatus(type) ==
    CASE type = "plan" -> "planner_plan"
      [] type = "continue" -> "planner_continue"
      [] type = "revision" -> "planner_revision"
      [] OTHER -> "planner_other"

\* the while test and the entry of wait_for_new_block
mon_loop ==
    /\ pc = "mon_loop"
    /\ IF ~INTERRUPTED
       THEN /\ elapsed' = 0
            /\ last_nudge' = 0
            /\ pc' = "mon_pwait"
       ELSE /\ pc' = "exited"
            /\ UNCHANGED <<elapsed, last_nudge>>
    /\ UNCHANGED <<answered, keys, pending, mode, max_rounds, pane, STATE_TABLE, seen_messages, INTERRUPTED, task_id,
                   round_count, task_complete, planner_msg, result_msg, sent,
                   returned, polled, run, emitted, summary, ret, buffer, blocks>>

mon_planner_poll ==
    wait_for_new_block_poll(PLANNER_PANE, PlannerTypes, NoTask, FALSE, PLAN_TIMEOUT,
                            "mon_pwait", "mon_pgot")

mon_planner_timeout == wait_for_new_block_timeout(PLAN_TIMEOUT, "mon_pwait", "mon_pgot")

\* from "if not planner_msg" to the line before forward_instruction_to_executer
mon_after_planner ==
    /\ pc = "mon_pgot"
    /\ IF planner_msg = <<>>
       THEN /\ pc' = "mon_loop"
            /\ UNCHANGED <<STATE_TABLE, task_id>>
       ELSE LET msg == planner_msg[1] IN
            \E t \in (IF msg.id # "" THEN {msg.id} ELSE TaskIds \ DOMAIN STATE_TABLE) :
               LET tbl == ensure_task_state(STATE_TABLE, t)
                   st == [tbl[t] EXCEPT !.messages = Append(@, msg)]
               IN /\ task_id' = t
                  /\ IF msg.type = "complete"
                     THEN /\ STATE_TABLE' = SetTask(tbl, t, [st EXCEPT !.status = "completed"])
                          /\ pc' = "mon_loop"
                     ELSE IF MonRoundsExhausted(st.round, max_rounds)
                     THEN /\ STATE_TABLE' = SetTask(tbl, t, [st EXCEPT !.status = "max_rounds"])
                          /\ pc' = "mon_loop"
                     ELSE /\ STATE_TABLE' =
                               SetTask(tbl, t, [st EXCEPT !.round = @ + 1,
                                                          !.status = PlannerStatus(msg.type)])
                          /\ pc' = "mon_fwd"
    /\ UNCHANGED <<answered, keys, pending, mode, max_rounds, pane, seen_messages, INTERRUPTED, round_count, task_complete,
                   planner_msg, result_msg, elapsed, last_nudge, sent, returned,
                   polled, run, emitted, summary, ret, buffer, blocks>>

\* forward_instruction_to_executer up to the entry of wait_for_executor_result
mon_forward ==
    /\ pc = "mon_fwd"
    /\ sent' = send_keys(sent, EXECUTER_PANE,
                         Write("forward", task_id, <<Key(planner_msg[1])>>))
    /\ STATE_TABLE' = [STATE_TABLE EXCEPT ![task_id].status = "executing",
                                          ![task_id].expected_from = EXECUTER,
                                          ![task_id].expected_type = "result"]
    /\ elapsed' = 0
    /\ result_msg' = <<>>
    /\ pc' = "mon_ewait"
    /\ UNCHANGED <<answered, keys, pending, mode, max_rounds, pane, seen_messages, INTERRUPTED, task_id, round_count,
                   task_complete, planner_msg, last_nudge, returned, polled, run,
                   emitted, summary, ret, buffer, blocks>>

mon_executer_poll == wait_for_executor_result_poll("mon_ewait", "mon_egot")

mon_executer_timeout == wait_for_executor_result_timeout("mon_ewait", "mon_egot")

mon_after_executer_break ==
    /\ pc = "mon_egot"
    /\ IF result_msg = <<>>
       THEN /\ STATE_TABLE' = [STATE_TABLE EXCEPT ![task_id].status = ExecTimeoutStatus]
            /\ UNCHANGED sent
       ELSE /\ sent' = send_keys(sent, PLANNER_PANE,
                                 Write("review", task_id, <<Key(result_msg[1])>>))
            /\ STATE_TABLE' = [STATE_TABLE EXCEPT ![task_id].status = "awaiting_planner",
                                                  ![task_id].expected_from = PLANNER,
                                                  ![task_id].expected_type = "continue"]
    /\ pc' = IF result_msg = <<>> THEN "exited" ELSE "mon_loop"
    /\ UNCHANGED <<answered, keys, pending, mode, max_rounds, pane, seen_messages, INTERRUPTED, task_id, round_count,
                   task_complete, planner_msg, result_msg, elapsed, last_nudge,
                   returned, polled, run, emitted, summary, ret, buffer, blocks>>

\* "if not result_msg" and send_result_to_planner
mon_after_executer ==
    /\ pc = "mon_egot"
    /\ IF result_msg = <<>>
       THEN /\ STATE_TABLE' = [STATE_TABLE EXCEPT ![task_id].status = ExecTimeoutStatus]
            /\ UNCHANGED sent
       ELSE /\ sent' = send_keys(sent, PLANNER_PANE,
                                 Write("review", task_id, <<Key(result_msg[1])>>))
            /\ STATE_TABLE' = [STATE_TABLE EXCEPT ![task_id].status = "awaiting_planner",
                                                  ![task_id].expected_from = PLANNER,
                                                  ![task_id].expected_type = "continue"]
    /\ pc' = "mon_loop"
    /\ UNCHANGED <<answered, keys, pending, mode, max_rounds, pane, seen_messages, INTERRUPTED, task_id, round_count,
                   task_complete, planner_msg, result_msg, elapsed, last_nudge,
                   returned, polled, run, emitted, summary, ret, buffer, blocks>>

(***************************************************************************)
(* signal_handler: SIGINT at any point of the control flow.                *)
(***************************************************************************)
Running == pc \notin {"exited", "codec", "decoded"}

signal_handler_planner_only ==
    /\ Running
    /\ INTERRUPTED' = TRUE
    /\ sent' = send_keys(sent, PLANNER_PANE, Write("cancel", NoTask, <<>>))
    /\ pc' = "exited"
    /\ UNCHANGED <<answered, keys, pending, mode, max_rounds, pane, STATE_TABLE, seen_messages, task_id, round_count,
                   task_complete, planner_msg, result_msg, elapsed, last_nudge,
                   returned, polled, run, emitted, summary, ret, buffer, blocks>>

signal_handler_returns ==
    /\ Running
    /\ ~INTERRUPTED
    /\ INTERRUPTED' = TRUE
    /\ sent' = send_keys(send_keys(sent, PLANNER_PANE, Write("cancel", NoTask, <<>>)),
                         EXECUTER_PANE, Write("cancel", NoTask, <<>>))
    /\ UNCHANGED <<answered, keys, pending, mode, max_rounds, pc, pane, STATE_TABLE, seen_messages, task_id,
                   round_count, task_complete, planner_msg, result_msg, elapsed,
                   last_nudge, returned, polled, run, emitted, summary, ret, buffer, blocks>>

\* INTERRUPTED = True, C-c to both panes, sys.exit(0)
signal_handler ==
    /\ Running
    /\ INTERRUPTED' = TRUE
    /\ sent' = send_keys(send_keys(sent, PLANNER_PANE, Write("cancel", NoTask, <<>>)),
                         EXECUTER_PANE, Write("cancel", NoTask, <<>>))
    /\ pc' = "exited"
    /\ UNCHANGED <<answered, keys, pending, mode, max_rounds, pane, STATE_TABLE, seen_messages, task_id, round_count,
                   task_complete, planner_msg, result_msg, elapsed, last_nudge,
                   returned, polled, run, emitted, summary, ret, buffer, blocks>>

(***************************************************************************)
(* The agents: each renders items into its own pane at any time.  A pane   *)
(* is only looked at by the polls of the wait on it, so an item rendered   *)
(* at any other moment is first seen by the next wait's first poll: the    *)
(* rendering is taken while that wait is in progress.                      *)
(***************************************************************************)
WaitingOn(party) ==
    IF party = PLANNER THEN pc \in {"rc_pwait", "mon_pwait", "once_pwait"}
    ELSE pc \in {"rc_ewait", "mon_ewait", "once_ewait"}

\* what Planner's pane may show: its own blocks for two task ids, one of them
\* addressed to Planner itself, a plan block that carries no id, and a result
\* block (the engine's review prompt quotes one into this pane)
PlannerAlphabet ==
    {Blk(EXECUTER, "plan", "a"), Blk(EXECUTER, "continue", "a"),
     Blk(EXECUTER, "complete", "a"), Blk(PLANNER, "plan", "b"),
     Blk(EXECUTER, "plan", ""),
     Blk(PLANNER, "result", "b")}

\* what Executer's pane may show: a result, an error and a status, and a plan
\* block (the engine's instruction quotes one into this pane)
ExecuterAlphabet ==
    {Blk(PLANNER, "result", "a"), Blk(PLANNER, "error", "a"),
     Blk(PLANNER, "status", "a"), Blk(EXECUTER, "plan", "a")}

AgentRenders(party, it) ==
    /\ WaitingOn(party)
    /\ emitted < MaxEmit
    /\ pane' = [pane EXCEPT ![party] = Render(@, it)]
    /\ emitted' = emitted + 1
    /\ UNCHANGED <<answered, keys, pending, mode, max_rounds, pc, STATE_TABLE, seen_messages, INTERRUPTED, task_id,
                   round_count, task_complete, planner_msg, result_msg, elapsed,
                   last_nudge, sent, returned, polled, run, summary, ret, buffer, blocks>>

PlannerRenders == \E it \in PlannerAlphabet : AgentRenders(PLANNER, it)

ExecuterRenders == \E it \in ExecuterAlphabet : AgentRenders(EXECUTER, it)

(***************************************************************************)
(* The orchestrator: main() runs Monitor mode or the continuous dialogue.  *)
(***************************************************************************)
Init ==
    /\ mode \in {"continuous", "monitor"}
    /\ max_rounds \in 1..MaxRounds
    /\ pc = IF mode = "monitor" THEN "mon_loop" ELSE "idle"
    /\ pane = [p \in Party |-> <<>>]
    /\ STATE_TABLE = <<>>
    /\ seen_messages = {}
    /\ INTERRUPTED = FALSE
    /\ task_id = NoTask
    /\ round_count = 0
    /\ task_complete = FALSE
    /\ planner_msg = <<>>
    /\ result_msg = <<>>
    /\ elapsed = 0
    /\ last_nudge = 0
    /\ sent = [p \in Party |-> <<>>]
    /\ returned = <<>>
    /\ polled = {}
    /\ run = IF mode = "monitor" THEN 1 ELSE 0
    /\ emitted = 0
    /\ summary = ""
    /\ ret = <<>>
    /\ keys = [p \in Party |-> <<>>]
    /\ pending = <<>>
    /\ answered = 0
    /\ buffer = <<>>
    /\ blocks = <<>>

Next ==
    \/ route_continuous_begin
    \/ rc_loop
    \/ rc_planner_poll
    \/ rc_planner_timeout
    \/ rc_after_planner
    \/ rc_executer_poll
    \/ rc_executer_timeout
    \/ rc_after_executer
    \/ rc_finish
    \/ interactive_exit
    \/ mon_loop
    \/ mon_planner_poll
    \/ mon_planner_timeout
    \/ mon_after_planner
    \/ mon_forward
    \/ mon_executer_poll
    \/ mon_executer_timeout
    \/ mon_after_executer
    \/ signal_handler
    \/ PlannerRenders
    \/ ExecuterRenders

Spec == Init /\ [][Next]_vars

(***************************************************************************)
(* Several dialogues in one process: interactive_mode calls                *)
(* route_continuous once per task entered at its prompt, and a caller of   *)
(* route_continuous may pass the task id itself.                           *)
(***************************************************************************)
InitSession ==
    /\ mode \in {"interactive", "calls"}
    /\ max_rounds = 1
    /\ pc = "idle"
    /\ pane = [p \in Party |-> <<>>]
    /\ STATE_TABLE = <<>>
    /\ seen_messages = {}
    /\ INTERRUPTED = FALSE
    /\ task_id = NoTask
    /\ round_count = 0
    /\ task_complete = FALSE
    /\ planner_msg = <<>>
    /\ result_msg = <<>>
    /\ elapsed = 0
    /\ last_nudge = 0
    /\ sent = [p \in Party |-> <<>>]
    /\ returned = <<>>
    /\ polled = {}
    /\ run = 0
    /\ emitted = 0
    /\ summary = ""
    /\ ret = <<>>
    /\ keys = [p \in Party |-> <<>>]
    /\ pending = <<>>
    /\ answered = 0
    /\ buffer = <<>>
    /\ blocks = <<>>

NextSession ==
    \/ route_continuous_begin
    \/ route_continuous_given
    \/ rc_loop
    \/ rc_planner_poll
    \/ rc_planner_timeout
    \/ rc_after_planner
    \/ rc_executer_poll
    \/ rc_executer_timeout
    \/ rc_after_executer
    \/ rc_finish
    \/ interactive_exit
    \/ signal_handler
    \/ PlannerRenders
    \/ ExecuterRenders

SpecSession == InitSession /\ [][NextSession]_vars

(***************************************************************************)
(* send_keys on its own, one tmux call at a time: the text is split into   *)
(* lines and each line is submitted to the pane with its own send-keys     *)
(* calls; SIGINT runs signal_handler between any two of them.              *)
(***************************************************************************)
\* one line of the text of the n-th send_keys call, of lines in all
Line(n, i, of) == [write |-> n, line |-> i, of |-> of]

\* the C-c that signal_handler sends
CtrlC == [write |-> 0, line |-> 0, of |-> 0]

InitSend ==
    /\ mode = "send"
    /\ max_rounds = 1
    /\ pc = "send_idle"
    /\ pane = [p \in Party |-> <<>>]
    /\ STATE_TABLE = <<>>
    /\ seen_messages = {}
    /\ INTERRUPTED = FALSE
    /\ task_id = NoTask
    /\ round_count = 0
    /\ task_complete = FALSE
    /\ planner_msg = <<>>
    /\ result_msg = <<>>
    /\ elapsed = 0
    /\ last_nudge = 0
    /\ sent = [p \in Party |-> <<>>]
    /\ returned = <<>>
    /\ polled = {}
    /\ run = 0
    /\ emitted = 0
    /\ summary = ""
    /\ buffer = <<>>
    /\ blocks = <<>>
    /\ ret = <<>>
    /\ keys = [p \in Party |-> <<>>]
    /\ pending = <<>>
    /\ answered = 0

\* send_keys(target, text): lines = text.split("\n")
send_keys_call ==
    /\ pc = "send_idle"
    /\ run < MaxWrites
    /\ \E target \in Party, n \in 1..MaxLines :
          pending' = [i \in 1..n |-> [target |-> target, key |-> Line(run + 1, i, n)]]
    /\ run' = run + 1
    /\ pc' = "sending"
    /\ UNCHANGED <<answered, keys, mode, max_rounds, pane, STATE_TABLE, seen_messages, INTERRUPTED,
                   task_id, round_count, task_complete, planner_msg, result_msg, elapsed,
                   last_nudge, sent, returned, polled, emitted, summary, ret, buffer, blocks>>

\* one pass of "for line in lines": the line and its C-m
send_keys_line ==
    /\ pc = "sending"
    /\ keys' = [keys EXCEPT ![Head(pending).target] = Append(@, Head(pending).key)]
    /\ pending' = Tail(pending)
    /\ pc' = IF Tail(pending) = <<>> THEN "send_idle" ELSE "sending"
    /\ UNCHANGED <<answered, mode, max_rounds, pane, STATE_TABLE, seen_messages, INTERRUPTED, task_id,
                   round_count, task_complete, planner_msg, result_msg, elapsed,
                   last_nudge, sent, returned, polled, run, emitted, summary, ret,
                   buffer, blocks>>

\* signal_handler, seen at the level of tmux calls: C-c to both panes, sys.exit(0)
signal_handler_keys ==
    /\ pc \in {"send_idle", "sending"}
    /\ INTERRUPTED' = TRUE
    /\ keys' = [p \in Party |-> Append(keys[p], CtrlC)]
    /\ pc' = "exited"
    /\ UNCHANGED <<answered, pending, mode, max_rounds, pane, STATE_TABLE, seen_messages, task_id,
                   round_count, task_complete, planner_msg, result_msg, elapsed,
                   last_nudge, sent, returned, polled, run, emitted, summary, ret,
                   buffer, blocks>>

NextSend ==
    \/ send_keys_call
    \/ send_keys_line
    \/ signal_handler_keys

SpecSend == InitSend /\ [][NextSend]_vars

(***************************************************************************)
(* The codec on its own: find_blocks applied to every transcript of at     *)
(* most MaxBuf items.                                                      *)
(***************************************************************************)
CodecItems ==
    {Blk(EXECUTER, "plan", "a"), Blk(EXECUTER, "plan", "b"), Blk(PLANNER, "result", "a"),
     Malformed, OpenOnly(EXECUTER, "continue", "a"), CutMeta}

Transcripts == UNION {[1..n -> CodecItems] : n \in 0..MaxBuf}

InitDecode ==
    /\ mode = "codec"
    /\ max_rounds = 1
    /\ pc = "codec"
    /\ buffer \in Transcripts
    /\ blocks = <<>>
    /\ pane = [p \in Party |-> <<>>]
    /\ STATE_TABLE = <<>>
    /\ seen_messages = {}
    /\ INTERRUPTED = FALSE
    /\ task_id = NoTask
    /\ round_count = 0
    /\ task_complete = FALSE
    /\ planner_msg = <<>>
    /\ result_msg = <<>>
    /\ elapsed = 0
    /\ last_nudge = 0
    /\ sent = [p \in Party |-> <<>>]
    /\ returned = <<>>
    /\ polled = {}
    /\ run = 0
    /\ emitted = 0
    /\ summary = ""
    /\ ret = <<>>
    /\ keys = [p \in Party |-> <<>>]
    /\ pending = <<>>
    /\ answered = 0

\* blocks = find_blocks(buffer)
codec_decode ==
    /\ pc = "codec"
    /\ blocks' = find_blocks(buffer)
    /\ pc' = "decoded"
    /\ UNCHANGED <<answered, keys, pending, mode, max_rounds, pane, STATE_TABLE, seen_messages, INTERRUPTED,
                   task_id, round_count, task_complete, planner_msg, result_msg,
                   elapsed, last_nudge, sent, returned, polled, run, emitted,
                   summary, ret, buffer>>

NextDecode == codec_decode

SpecDecode == InitDecode /\ [][NextDecode]_vars

(***************************************************************************)
(* The state table on its own: ensure_task_state applied to every table of *)
(* entries for the ids of TaskIds and to every id.                         *)
(***************************************************************************)
\* the entries a table may hold for id t
Entries(t) ==
    [task_id : {t}, expected_from : Party, expected_type : {"plan", "result"},
     round : 0..MaxRounds, status : {"active", "executing", "completed"},
     messages : {<<>>, <<PoliMessage(EXECUTER, "plan", t)>>}]

Tables ==
    UNION {{tbl \in [D -> UNION {Entries(t) : t \in TaskIds}] :
               \A t \in D : tbl[t].task_id = t} : D \in SUBSET TaskIds}

InitEnsure ==
    /\ mode = "store"
    /\ max_rounds = 1
    /\ pc = "ensure"
    /\ STATE_TABLE \in Tables
    /\ task_id \in TaskIds
    /\ pane = [p \in Party |-> <<>>]
    /\ seen_messages = {}
    /\ INTERRUPTED = FALSE
    /\ round_count = 0
    /\ task_complete = FALSE
    /\ planner_msg = <<>>
    /\ result_msg = <<>>
    /\ elapsed = 0
    /\ last_nudge = 0
    /\ sent = [p \in Party |-> <<>>]
    /\ returned = <<>>
    /\ polled = {}
    /\ run = 0
    /\ emitted = 0
    /\ summary = ""
    /\ ret = <<>>
    /\ keys = [p \in Party |-> <<>>]
    /\ pending = <<>>
    /\ answered = 0
    /\ buffer = <<>>
    /\ blocks = <<>>

\* state = ensure_task_state(task_id)
ensure_call ==
    /\ pc = "ensure"
    /\ STATE_TABLE' = ensure_task_state(STATE_TABLE, task_id)
    /\ pc' = "ensured"
    /\ UNCHANGED <<answered, keys, pending, mode, max_rounds, pane, seen_messages, INTERRUPTED, task_id, round_count,
                   task_complete, planner_msg, result_msg, elapsed, last_nudge, sent,
                   returned, polled, run, emitted, summary, ret, buffer, blocks>>

NextEnsure == ensure_call

SpecEnsure == InitEnsure /\ [][NextEnsure]_vars

(***************************************************************************)
(* Properties.                                                             *)
(***************************************************************************)
Terminal == {"completed", "timeout", "exec_timeout", "interrupted", "max_rounds"}

\* number of entries of the sequence s that satisfy Test
Count(s, Test(_)) == Cardinality({i \in 1..Len(s) : Test(s[i])})

\* C1 (Dedup): among the messages the waits of one run (one SeenSet) handed
\* back to the engine, no (id, kind) pair occurs twice, whichever of the two
\* waits returned them.
C1_Dedup ==
    \A i, j \in 1..Len(returned) :
        (i < j /\ returned[i].run = returned[j].run) => returned[i].key # returned[j].key

\* C1 witness: a second Planner wait has polled at least once while the block
\* the first Planner wait returned is still the one the pane decodes to, and an
\* Executer block has been returned in between.
C1_Witness ==
    /\ pc \in {"rc_pwait", "mon_pwait"}
    /\ elapsed >= 1
    /\ Len(returned) >= 2
    /\ returned[1].from = PLANNER /\ returned[2].from = EXECUTER
    /\ find_blocks(pane[PLANNER]) # <<>>
    /\ Key(find_blocks(pane[PLANNER])[1]) = returned[1].key

\* the blocks of a transcript that decode: the regex matches whose metadata parses
Decodable(buf) == ParsedBlocks(BLOCK_RE(buf))

\* C2 (Last-wins): find_blocks returns the last decodable block alone when the
\* transcript holds two or more, that block when it holds one, and the empty
\* sequence when it holds none.
C2_LastWins ==
    pc = "decoded" =>
        LET d == Decodable(buffer) IN
        /\ Len(d) >= 2 => blocks = <<d[Len(d)]>>
        /\ Len(d) = 1 => blocks = d
        /\ Len(d) = 0 => blocks = <<>>

\* C2 witness: a decoded transcript with two different decodable blocks, of
\* which the second was returned.
C2_Witness ==
    /\ pc = "decoded"
    /\ Len(Decodable(buffer)) = 2
    /\ Decodable(buffer)[1] # Decodable(buffer)[2]
    /\ blocks = <<Decodable(buffer)[2]>>

\* the writes of one kind made to a party's pane for task t
Writes(party, what, t) == Count(sent[party], LAMBDA w : w.what = what /\ w.task = t)

\* C3 (Terminal exclusivity): a task whose status is completed, timeout,
\* exec_timeout, interrupted or max_rounds keeps that status in every later
\* step, in continuous and in Monitor mode.
C3_TerminalExclusivity ==
    [][\A t \in DOMAIN STATE_TABLE :
          STATE_TABLE[t].status \in Terminal =>
              /\ t \in DOMAIN STATE_TABLE'
              /\ STATE_TABLE'[t].status = STATE_TABLE[t].status]_vars

\* the messages returned for task t during its lifetime: up to the first one
\* accepted when the task had already reached a terminal status
RECURSIVE Lifetime(_, _)
Lifetime(s, t) ==
    IF s = <<>> THEN <<>>
    ELSE IF Head(s).task # t THEN Lifetime(Tail(s), t)
    ELSE IF Head(s).st \in Terminal THEN <<>>
    ELSE <<Head(s)>> \o Lifetime(Tail(s), t)

\* the messages returned for task t, in order
ReturnedFor(t) == SelectSeq(returned, LAMBDA r : r.task = t)

\* s alternates Planner, Executer, Planner, ..., each message returned while
\* the engine expected that party
Alternates(s) ==
    \A i \in 1..Len(s) :
        /\ s[i].from = (IF i % 2 = 1 THEN PLANNER ELSE EXECUTER)
        /\ s[i].exp = s[i].from

\* C4 (Ordering): within the task of route_continuous the messages the waits
\* hand back alternate Planner, Executer, Planner, ..., each returned while the
\* engine expects that party (in Monitor mode the same holds of a task up to
\* its first terminal status); what is returned from Planner's pane is never
\* of kind result or error, and what is returned from Executer's pane is
\* never of a Planner kind.
C4_Ordering ==
    /\ mode = "continuous" => \A t \in TaskIds : Alternates(ReturnedFor(t))
    /\ mode = "monitor" => \A t \in TaskIds : Alternates(Lifetime(returned, t))
    /\ \A i \in 1..Len(returned) :
          /\ returned[i].from = PLANNER => returned[i].key[2] \notin {"result", "error"}
          /\ returned[i].from = EXECUTER => returned[i].key[2] \in {"result", "error"}

\* C4 witness: in route_continuous a task went Planner, Executer, Planner, with
\* an unseen result block in Planner's pane.
C4_Witness ==
    /\ mode = "continuous"
    /\ Len(ReturnedFor(task_id)) >= 3
    /\ find_blocks(pane[PLANNER]) # <<>>
    /\ \E i \in 1..Len(pane[PLANNER]) :
          /\ pane[PLANNER][i].type = "result"
          /\ <<pane[PLANNER][i].id, "result">> \notin seen_messages

\* the instructions written to Executer that quote the block with key k
Forwards(k) == Count(sent[EXECUTER], LAMBDA w : w.what = "forward" /\ w.quote = <<k>>)

\* C5 (forward): when the Executer wait begins after a Planner block of kind
\* plan, continue or revision was accepted, exactly one instruction quoting that
\* block has been written to Executer and the task has status executing,
\* expectedSender Executer and expectedKind result.
C5_ForwardState ==
    pc \in {"rc_ewait", "mon_ewait"} =>
        /\ planner_msg # <<>>
        /\ planner_msg[1].type \in {"plan", "continue", "revision"}
        /\ Forwards(Key(planner_msg[1])) = 1
        /\ STATE_TABLE[task_id].status = "executing"
        /\ STATE_TABLE[task_id].expected_from = EXECUTER
        /\ STATE_TABLE[task_id].expected_type = "result"

\* the engine is running and has dealt with the last message a wait returned
Handled == pc \notin {"rc_pgot", "mon_pgot", "rc_egot", "mon_egot", "exited"}

\* C6 (complete): once the engine has dealt with an accepted Planner block of
\* kind complete, the task is completed; and for a completed task the summary
\* prompt was written to Planner exactly once, the complete block was not
\* forwarded to Executer, and no pane is read on the task's behalf.
C6_CompleteHandled ==
    /\ (Len(returned) > 0 /\ Handled /\ returned[Len(returned)].key[2] = "complete")
          => StatusOf(returned[Len(returned)].task) = "completed"
    /\ \A t \in DOMAIN STATE_TABLE :
          STATE_TABLE[t].status = "completed" =>
              /\ Writes(PLANNER, "summary", t) = 1
              /\ Forwards(<<t, "complete">>) = 0
              /\ \A p \in Party : <<p, t, "completed">> \notin polled

\* C7 (review): the step that deals with an accepted Executer block of kind
\* result or error writes one review prompt quoting it to Planner, nothing to
\* Executer, and leaves the task with status awaiting_review and
\* expectedSender Planner.
C7_ReviewState ==
    [][(pc \in {"rc_egot", "mon_egot"} /\ result_msg # <<>> /\ pc' \in {"rc_loop", "mon_loop"})
          => /\ sent'[PLANNER] =
                  Append(sent[PLANNER], Write("review", task_id, <<Key(result_msg[1])>>))
             /\ sent'[EXECUTER] = sent[EXECUTER]
             /\ STATE_TABLE'[task_id].status = "awaiting_review"
             /\ STATE_TABLE'[task_id].expected_from = PLANNER]_vars

\* the rounds of task t played to the end: its results relayed to Planner
RoundsPlayed(t) == Writes(PLANNER, "review", t)

\* C8 (max_rounds): when route_continuous returns after max_rounds full rounds
\* without a complete block, the task's status is max_rounds; in Monitor mode,
\* once the engine has dealt with a further plan, continue or revision block
\* of a task that has played max_rounds rounds, its status is max_rounds.
C8_MaxRoundsStatus ==
    /\ (mode = "continuous" /\ pc = "idle" /\ run > 0 /\ ~task_complete
          /\ RoundsPlayed(task_id) >= max_rounds)
          => STATE_TABLE[task_id].status = "max_rounds"
    /\ (mode = "monitor" /\ Len(returned) > 0 /\ Handled /\ pc # "mon_fwd")
          => LET r == returned[Len(returned)] IN
             (r.from = PLANNER /\ r.key[2] # "complete" /\ RoundsPlayed(r.task) >= max_rounds)
                 => STATE_TABLE[r.task].status = "max_rounds"

\* C9 (round budget): the instructions written to Executer for one task never
\* number more than max_rounds.
C9_ForwardBudget ==
    \A t \in TaskIds : Writes(EXECUTER, "forward", t) <= max_rounds

\* C9 witness: a task has had max_rounds instructions forwarded, Planner has
\* sent one more block for it, and that block was not forwarded.
C9_Witness ==
    \E t \in DOMAIN STATE_TABLE :
        /\ Writes(EXECUTER, "forward", t) = max_rounds
        /\ STATE_TABLE[t].status = "max_rounds"
        /\ Len(STATE_TABLE[t].messages) > max_rounds

\* C10 (timeout statuses): a Planner wait that ends in Timeout records the
\* status timeout and an Executer wait that ends in Timeout records
\* exec_timeout, the control flow going on to the end of the round; and no
\* other step sets either status.
C10_TimeoutStatus ==
    [][/\ (pc = "rc_pgot" /\ planner_msg = <<>> /\ pc' # "exited")
            => (pc' = "rc_end" /\ STATE_TABLE'[task_id].status = "timeout")
       /\ (pc \in {"rc_egot", "mon_egot"} /\ result_msg = <<>> /\ pc' # "exited")
            => (pc' \in {"rc_end", "mon_loop"}
                  /\ STATE_TABLE'[task_id].status = "exec_timeout")
       /\ \A t \in DOMAIN STATE_TABLE' :
            /\ (STATE_TABLE'[t].status = "timeout" /\ StatusOf(t) # "timeout")
                  => (pc = "rc_pgot" /\ planner_msg = <<>> /\ t = task_id)
            /\ (STATE_TABLE'[t].status = "exec_timeout" /\ StatusOf(t) # "exec_timeout")
                  => (pc \in {"rc_egot", "mon_egot"} /\ result_msg = <<>> /\ t = task_id)
      ]_vars

\* C10 witness: route_continuous has ended a round on a Planner timeout, after
\* an earlier round's Executer answered in time.
C10_Witness ==
    /\ pc = "rc_end"
    /\ planner_msg = <<>>
    /\ round_count = 2
    /\ STATE_TABLE[task_id].status = "timeout"

TimedOut == {"timeout", "exec_timeout"}

\* task t has had the status timeout or exec_timeout recorded: it has it now,
\* or a wait handed back a block of t while it had it
EverTimedOut(t) ==
    \/ StatusOf(t) \in TimedOut
    \/ \E i \in 1..Len(returned) : returned[i].task = t /\ returned[i].st \in TimedOut

\* the writes made to a party's pane for task t
WritesFor(party, t) == SelectSeq(sent[party], LAMBDA w : w.task = t)

\* C11 (no write after timeout): once a task's status has been recorded as
\* timeout or exec_timeout, no later step writes to Planner's or to Executer's
\* pane for that task, in continuous and in Monitor mode.
C11_NoWriteAfterTimeout ==
    [][\A t \in TaskIds :
          EverTimedOut(t) =>
              \A p \in Party : SelectSeq(sent'[p], LAMBDA w : w.task = t) = WritesFor(p, t)]_vars

\* C12 (round monotonicity): a task's round counter never decreases and moves
\* only by +1, one step per instruction forwarded to Executer: whenever the
\* engine is between rounds (route_continuous has returned, or monitor_planner
\* is at the top of its loop) a task's round equals the number of instructions
\* forwarded to Executer for it.
C12_RoundMonotone ==
    [][/\ \A t \in DOMAIN STATE_TABLE :
             /\ t \in DOMAIN STATE_TABLE'
             /\ STATE_TABLE'[t].round \in {STATE_TABLE[t].round, STATE_TABLE[t].round + 1}
       /\ pc' \in {"idle", "mon_loop"} =>
             \A t \in DOMAIN STATE_TABLE' :
                 STATE_TABLE'[t].round =
                     Len(SelectSeq(sent'[EXECUTER], LAMBDA w : w.what = "forward" /\ w.task = t))
      ]_vars

\* the control flow is inside a wait
InWait == pc \in {"rc_pwait", "rc_ewait", "mon_pwait", "mon_ewait"}

\* C13 (interrupted wins): when the interrupt flag trips while a wait of a task
\* is in progress or between two rounds of route_continuous, the task's status
\* is interrupted from then on.
C13_InterruptedStatus ==
    [][(~INTERRUPTED /\ INTERRUPTED'
          /\ \/ pc \in {"rc_pwait", "rc_ewait", "mon_ewait"}
             \/ pc = "rc_loop" /\ round_count >= 1)
          => STATE_TABLE'[task_id].status = "interrupted"]_vars

\* the writes of one kind made to a party's pane
Notices(party, what) == Count(sent[party], LAMBDA w : w.what = what)

\* C14 (cancel on interrupt): the step that trips the interrupt flag writes one
\* cancel notice to Planner's and one to Executer's pane and reads no pane;
\* once the flag is up the engine has stopped, each pane's last write is its
\* cancel notice, and no later step reads or writes a pane.
C14_CancelBoth ==
    [][/\ (~INTERRUPTED /\ INTERRUPTED') =>
             /\ \A p \in Party : sent'[p] = Append(sent[p], Write("cancel", NoTask, <<>>))
             /\ polled' = polled
       /\ INTERRUPTED' =>
             /\ pc' = "exited"
             /\ \A p \in Party :
                   /\ Len(sent'[p]) > 0
                   /\ sent'[p][Len(sent'[p])].what = "cancel"
       /\ INTERRUPTED => (sent' = sent /\ polled' = polled)
      ]_vars

\* C14 witness: the flag tripped during a wait on Executer, after the task's
\* instruction was forwarded; both panes have their cancel notice.
C14_Witness ==
    /\ INTERRUPTED
    /\ pc = "exited"
    /\ elapsed >= 1
    /\ task_id \in DOMAIN STATE_TABLE
    /\ Writes(EXECUTER, "forward", task_id) = 1
    /\ result_msg = <<>>
    /\ \A p \in Party : Notices(p, "cancel") = 1

\* C15 (no I/O after the trip): from the step that trips the interrupt flag on,
\* no wait is in progress, no pane is read and no nudge is written.
C15_NoWaitIO ==
    [][INTERRUPTED' =>
          /\ ~InWait'
          /\ polled' = polled
          /\ \A p \in Party :
                Count(sent'[p], LAMBDA w : w.what = "nudge") = Notices(p, "nudge")]_vars

\* C15 witness: the flag tripped in the first Planner wait of route_continuous
\* after at least one poll, at a moment a nudge was due.
C15_Witness ==
    /\ INTERRUPTED
    /\ mode = "continuous"
    /\ round_count = 1
    /\ planner_msg = <<>>
    /\ Writes(EXECUTER, "forward", task_id) = 0
    /\ elapsed >= 1
    /\ NudgeDue(TRUE, PLAN_TIMEOUT)
    /\ <<PLANNER, task_id, "active">> \in polled

\* C16 (UnexpectedKind): a poll of a wait that hands nothing back, because the
\* block it decoded is of a kind the wait does not accept (or is not new, or
\* there is none), leaves the SeenSet as it was, in the Planner-side and in the
\* Executer-side wait.
C16_SkipUnmarked ==
    [][(InWait /\ pc' = pc) => seen_messages' = seen_messages]_vars

\* the time a wait has: PLAN_TIMEOUT on Planner's pane, EXEC_TIMEOUT on Executer's
TimeoutOf(p) == IF p \in {"rc_pwait", "mon_pwait"} THEN PLAN_TIMEOUT ELSE EXEC_TIMEOUT

\* the pane a wait reads
PaneOf(p) == IF p \in {"rc_pwait", "mon_pwait"} THEN PLANNER_PANE ELSE EXECUTER_PANE

\* the kinds a wait hands back
AcceptedBy(p) == IF p \in {"rc_pwait", "mon_pwait"} THEN PlannerTypes ELSE {"result", "error"}

\* this step is one iteration of the loop of the wait in progress
PollStep == InWait /\ elapsed < TimeoutOf(pc) /\ emitted' = emitted /\ ~INTERRUPTED'

\* C17 (identity is the pair): a poll that decodes a block of an accepted kind
\* whose (id, kind) pair is not in the SeenSet hands it back and adds the pair,
\* whether or not its id is in the SeenSet under another kind; a poll that
\* decodes a block whose pair is in the SeenSet hands nothing back.
C17_PairIdentity ==
    [][PollStep =>
          LET bl == find_blocks(pane[PaneOf(pc)]) IN
          bl # <<>> =>
              /\ (Key(bl[1]) \notin seen_messages /\ bl[1].type \in AcceptedBy(pc)
                     /\ bl[1].id # "")
                    => /\ Len(returned') = Len(returned) + 1
                       /\ returned'[Len(returned')].key = Key(bl[1])
                       /\ Key(bl[1]) \in seen_messages'
              /\ Key(bl[1]) \in seen_messages => returned' = returned]_vars

\* C17 witness: a result was handed back whose id was in the SeenSet as the
\* forwarded plan and as a status before.
C17_Witness ==
    /\ pc \in {"rc_egot", "mon_egot"}
    /\ result_msg # <<>>
    /\ result_msg[1].type = "result"
    /\ planner_msg # <<>>
    /\ planner_msg[1].id = result_msg[1].id
    /\ <<result_msg[1].id, "status">> \in seen_messages
    /\ Len(returned) = 2

\* C18 (recipient filter): what a wait hands back from Planner's pane is
\* addressed to Executer, and what it hands back from Executer's pane is
\* addressed to Planner.
C18_RecipientFilter ==
    \A i \in 1..Len(returned) :
        returned[i].to = (IF returned[i].from = PLANNER THEN EXECUTER ELSE PLANNER)

\* C19 (bounded wait): a wait in progress never runs past its timeout; each
\* pass through its loop ends it or advances its clock by one poll interval;
\* once elapsed has reached the timeout it takes no further
\* poll (no pane read, no nudge, no block handed back) and its only outcome is
\* Timeout: the control flow goes on with no message.
C19_BoundedWait ==
    /\ [](InWait => elapsed <= TimeoutOf(pc))
    /\ [][InWait =>
             /\ (emitted' = emitted /\ ~INTERRUPTED') =>
                   (pc' # pc \/ elapsed' = elapsed + 1)
             /\ elapsed >= TimeoutOf(pc) =>
                   /\ elapsed' # elapsed + 1
                   /\ returned' = returned
                   /\ polled' = polled
                   /\ ~INTERRUPTED' =>
                         /\ sent' = sent
                         /\ pc' # pc =>
                               /\ pc' \in {"rc_pgot", "rc_egot", "mon_pgot", "mon_egot"}
                               /\ pc' \in {"rc_pgot", "mon_pgot"} => planner_msg' = <<>>
                               /\ pc' \in {"rc_egot", "mon_egot"} => result_msg' = <<>>]_vars

\* C19 witness: a Planner wait of route_continuous ended in Timeout with a block
\* in the pane that never qualified (already seen), and so did a wait on
\* Executer's pane in Monitor mode with a block of another kind in the pane.
C19_Witness ==
    \/ /\ pc = "rc_pgot" /\ planner_msg = <<>> /\ round_count = 2
       /\ find_blocks(pane[PLANNER]) # <<>>
       /\ Key(find_blocks(pane[PLANNER])[1]) \in seen_messages
       /\ <<PLANNER, task_id, "active">> \in polled
    \/ /\ pc = "mon_egot" /\ result_msg = <<>>
       /\ find_blocks(pane[EXECUTER]) # <<>>
       /\ find_blocks(pane[EXECUTER])[1].type = "status"

\* this step writes a nudge to the pane of party p
NudgeStep(p) == Count(sent'[p], LAMBDA w : w.what = "nudge") = Notices(p, "nudge") + 1

\* C20 (nudge cadence): last_nudge is the time of the wait's last nudge (0, the
\* start of the wait, when there was none); a nudge is written only by a poll
\* of the Planner wait of route_continuous that hands nothing back, more than
\* timeout/3 after the previous nudge of the wait (after the start of the wait
\* for its first), as one reminder line that quotes no block, to the pane
\* being waited on; the poll that hands a block back writes nothing, and in
\* Monitor mode (nudging off) no nudge is written.
C20_NudgeCadence ==
    [][/\ \A p \in Party :
             NudgeStep(p) =>
                 /\ p = PLANNER /\ pc = "rc_pwait" /\ pc' = pc /\ mode = "continuous"
                 /\ returned' = returned
                 /\ 3 * (elapsed - last_nudge) > PLAN_TIMEOUT
                 /\ last_nudge' = elapsed
                 /\ elapsed' = elapsed + 1
                 /\ sent'[p] = Append(sent[p], Write("nudge", task_id, <<>>))
                 /\ sent'[EXECUTER] = sent[EXECUTER]
       /\ (pc = "rc_pwait" /\ pc' = pc /\ ~NudgeStep(PLANNER)) => last_nudge' = last_nudge
       /\ (pc # "rc_pwait" /\ pc' = "rc_pwait") => (last_nudge' = 0 /\ elapsed' = 0)
       /\ Len(returned') > Len(returned) => sent' = sent
      ]_vars

\* the writes at the end of s that are nudges
RECURSIVE TrailingNudges(_)
TrailingNudges(s) ==
    IF s = <<>> \/ s[Len(s)].what # "nudge" THEN 0
    ELSE 1 + TrailingNudges(SubSeq(s, 1, Len(s) - 1))

\* C20 witness: the second Planner wait of route_continuous has written two
\* nudges and then handed nothing back by its timeout.
C20_Witness ==
    /\ pc = "rc_pgot"
    /\ round_count = 2
    /\ planner_msg = <<>>
    /\ TrailingNudges(sent[PLANNER]) = 2

\* C21 (terminal on return): when route_continuous has returned, the status of
\* its task is completed, timeout, exec_timeout, max_rounds or interrupted.
C21_ReturnsTerminal ==
    (mode = "continuous" /\ pc = "idle" /\ run > 0)
        => STATE_TABLE[task_id].status \in Terminal

\* the status domain of the specification
StatusDomain ==
    {"active", "executing", "awaiting_review", "completed", "timeout", "exec_timeout",
     "max_rounds", "interrupted"}

\* C22 (status domain): in every state of every mode each task's status is
\* active, executing, awaiting_review, completed, timeout, exec_timeout,
\* max_rounds or interrupted.
C22_StatusDomain ==
    \A t \in DOMAIN STATE_TABLE : STATE_TABLE[t].status \in StatusDomain

\* C23 (summary by status): when route_continuous has returned, the summary
\* line it printed is the one of the task's recorded status, so two runs that
\* end in different statuses print different lines.
C23_SummaryMatchesStatus ==
    (mode = "continuous" /\ pc = "idle" /\ run > 0)
        => summary = STATE_TABLE[task_id].status

\* C24 (block without id): in Monitor mode a poll of the Planner wait that
\* decodes a block of an accepted kind carrying no id hands it back, and the
\* engine then gives it a fresh task id with a TaskState of its own.
C24_NoIdPickedUp ==
    [][(PollStep /\ pc = "mon_pwait"
          /\ find_blocks(pane[PLANNER]) # <<>>
          /\ find_blocks(pane[PLANNER])[1].id = ""
          /\ find_blocks(pane[PLANNER])[1].type \in PlannerTypes)
          => /\ pc' = "mon_pgot"
             /\ planner_msg' = find_blocks(pane[PLANNER])]_vars

\* some task has been recorded as exec_timeout or max_rounds
SomeTaskFailed ==
    \E t \in DOMAIN STATE_TABLE : STATE_TABLE[t].status \in {"exec_timeout", "max_rounds"}

\* C25 (Monitor goes on): in Monitor mode, recording exec_timeout or max_rounds
\* for a task takes the engine back to the top of its loop, from where it
\* waits on Planner again; and once a task is so recorded, a new Planner block
\* of kind plan, continue or revision for an id with no entry is handed back
\* by the wait, given an entry, and forwarded to Executer.
C25_MonitorGoesOn ==
    [][~INTERRUPTED' =>
          /\ (pc = "mon_egot" /\ result_msg = <<>>) => pc' = "mon_loop"
          /\ (pc = "mon_pgot" /\ task_id' \in DOMAIN STATE_TABLE'
                /\ STATE_TABLE'[task_id'].status = "max_rounds") => pc' = "mon_loop"
          /\ pc = "mon_loop" => pc' = "mon_pwait"
          /\ SomeTaskFailed =>
                LET bl == find_blocks(pane[PLANNER]) IN
                /\ (PollStep /\ pc = "mon_pwait" /\ bl # <<>>
                      /\ bl[1].id \notin DOMAIN STATE_TABLE \cup {""}
                      /\ Key(bl[1]) \notin seen_messages
                      /\ bl[1].type \in {"plan", "continue", "revision"})
                      => (pc' = "mon_pgot" /\ planner_msg' = bl)
                /\ (pc = "mon_pgot" /\ planner_msg # <<>>
                      /\ planner_msg[1].id \notin DOMAIN STATE_TABLE
                      /\ planner_msg[1].type # "complete")
                      => (pc' = "mon_fwd" /\ task_id' = planner_msg[1].id)
                /\ pc = "mon_fwd"
                      => sent'[EXECUTER] =
                            Append(sent[EXECUTER],
                                   Write("forward", task_id, <<Key(planner_msg[1])>>))]_vars

\* C25 witness: task a was recorded as exec_timeout, then a block of task b
\* was handed back and forwarded to Executer.
C25_Witness ==
    /\ mode = "monitor"
    /\ Len(returned) >= 2
    /\ returned[1].task = "a" /\ returned[2].task = "b" /\ returned[2].st = "none"
    /\ StatusOf("a") = "exec_timeout"
    /\ Writes(EXECUTER, "forward", "b") = 1

\* C26 (getOrCreate): ensure_task_state gives an id that has no entry an entry
\* with status active, round 0, expected sender Planner, expected kind plan
\* and no history, and leaves the table as it is for an id that has one; the
\* entries of the other ids are untouched either way.
C26_GetOrCreate ==
    [][pc = "ensure" =>
          /\ DOMAIN STATE_TABLE' = DOMAIN STATE_TABLE \cup {task_id}
          /\ \A t \in DOMAIN STATE_TABLE : STATE_TABLE'[t] = STATE_TABLE[t]
          /\ task_id \notin DOMAIN STATE_TABLE =>
                STATE_TABLE'[task_id] =
                    [task_id |-> task_id, expected_from |-> PLANNER, expected_type |-> "plan",
                     round |-> 0, status |-> "active", messages |-> <<>>]]_vars

\* C26 witness: ensure_task_state was applied to an id whose entry was
\* completed in round 2 with a message in its history, beside another entry.
C26_Witness ==
    /\ pc = "ensured"
    /\ DOMAIN STATE_TABLE = TaskIds
    /\ STATE_TABLE[task_id].status = "completed"
    /\ STATE_TABLE[task_id].round = 2
    /\ STATE_TABLE[task_id].messages # <<>>

\* C27 (entries persist): no step removes a task id from the store or throws
\* away what an entry has accumulated: an id that has an entry keeps one, its
\* round does not go down and its history only grows at the end.
C27_EntriesPersist ==
    [][\A t \in DOMAIN STATE_TABLE :
          /\ t \in DOMAIN STATE_TABLE'
          /\ STATE_TABLE'[t].round >= STATE_TABLE[t].round
          /\ Len(STATE_TABLE'[t].messages) >= Len(STATE_TABLE[t].messages)
          /\ SubSeq(STATE_TABLE'[t].messages, 1, Len(STATE_TABLE[t].messages))
                = STATE_TABLE[t].messages]_vars

\* C28 (no re-routing across tasks): among the messages the waits handed back
\* during one run of interactive_mode, no (id, kind) pair occurs twice, also
\* when the two belong to different tasks.
C28_NoRerouteAcrossTasks ==
    mode = "interactive" =>
        \A i, j \in 1..Len(returned) : i < j => returned[i].key # returned[j].key

\* C29 (serialized writes): on each pane, once a line of a text other than its
\* last has been submitted, the next thing submitted to that pane is the next
\* line of the same text.
C29_WritesSerialized ==
    \A p \in Party : \A k \in 1..Len(keys[p]) :
        (keys[p][k].line < keys[p][k].of /\ k < Len(keys[p]))
            => keys[p][k + 1] = Line(keys[p][k].write, keys[p][k].line + 1, keys[p][k].of)

\* the transcript holds complete blocks only (each with its closing marker)
CompleteBlocks(buf) == \A i \in 1..Len(buf) : buf[i].k = "block"

\* the well-formed blocks of a transcript of complete blocks, as messages
WellFormed(buf) ==
    LET w == SelectSeq(buf, LAMBDA it : it.ok) IN
    [i \in 1..Len(w) |-> PoliMessage(w[i].to, w[i].type, w[i].id)]

MaxNote == 2        \* characters of the string value of an extra metadata member
MaxBody == 3        \* characters of a block's body

Tok(c, v) == [c |-> c, v |-> v]

OPEN == Tok("[[POLI:MSG", "")       \* the opening marker and the white space after it
CLOSE == Tok("[[/POLI:MSG]]", "")   \* the closing marker
LBRACE == Tok("{", "")
RBRACE == Tok("}", "")
RBRACKETS == Tok("]]", "")
SP == Tok(" ", "")                  \* white space: a blank or a newline
CH == Tok("c", "")                  \* any other character
ESC_RBRACE == Tok("\\u007d", "")    \* the JSON escape of "}" inside a string
NOTE == Tok("\"note\": \"", "")     \* an extra member with a string value: up to its opening quote
ENDQ == Tok("\"", "")               \* the closing quote of that value

\* a member of the metadata object: "to", "type" and "id" with a string value, and
\* "idnum": the member "id" with a bare number as its value
Member(key, v) == Tok(key, v)

\* the dict json.loads returns: each key absent (<<>>) or present with its value
EmptyMeta == [to |-> <<>>, type |-> <<>>, id |-> <<>>, note |-> <<>>]

Least(S) == CHOOSE x \in S : \A y \in S : x <= y

\* the characters of a JSON string, decoded (escapes resolved)
Unescape(s) == [i \in 1..Len(s) |-> IF s[i] = ESC_RBRACE THEN RBRACE ELSE s[i]]

\* json.loads(meta_str), after the opening brace: <<dict>>, or <<>> for JSONDecodeError
RECURSIVE json_members(_, _, _)
json_members(s, i, meta) ==
    IF i > Len(s) THEN <<>>
    ELSE IF s[i] = RBRACE THEN (IF i = Len(s) THEN <<meta>> ELSE <<>>)
    ELSE IF s[i].c = "to" THEN json_members(s, i + 1, [meta EXCEPT !.to = <<s[i].v>>])
    ELSE IF s[i].c = "type" THEN json_members(s, i + 1, [meta EXCEPT !.type = <<s[i].v>>])
    ELSE IF s[i].c = "id"
         THEN json_members(s, i + 1, [meta EXCEPT !.id = <<[num |-> FALSE, v |-> s[i].v]>>])
    ELSE IF s[i].c = "idnum"
         THEN json_members(s, i + 1, [meta EXCEPT !.id = <<[num |-> TRUE, v |-> s[i].v]>>])
    ELSE IF s[i] = NOTE
         THEN LET ends == {j \in (i + 1)..Len(s) : s[j] = ENDQ} IN
              IF ends = {} THEN <<>>
              ELSE LET j == Least(ends) IN
                   json_members(s, j + 1,
                                [meta EXCEPT !.note = <<Unescape(SubSeq(s, i + 1, j - 1))>>])
    ELSE <<>>

json_loads(s) ==
    IF s # <<>> /\ s[1] = LBRACE THEN json_members(s, 2, EmptyMeta) ELSE <<>>

\* json.dumps(raw_meta): every character of a string is written as itself
json_dumps(meta) ==
    <<LBRACE>>
    \o (IF meta.to = <<>> THEN <<>> ELSE <<Member("to", meta.to[1])>>)
    \o (IF meta.type = <<>> THEN <<>> ELSE <<Member("type", meta.type[1])>>)
    \o (IF meta.id = <<>> THEN <<>>
        ELSE <<Member(IF meta.id[1].num THEN "idnum" ELSE "id", meta.id[1].v)>>)
    \o (IF meta.note = <<>> THEN <<>> ELSE <<NOTE>> \o meta.note[1] \o <<ENDQ>>)
    \o <<RBRACE>>

\* str.strip()
RECURSIVE lstrip(_)
lstrip(s) == IF s # <<>> /\ Head(s) = SP THEN lstrip(Tail(s)) ELSE s

RECURSIVE rstrip(_)
rstrip(s) == IF s # <<>> /\ s[Len(s)] = SP THEN rstrip(SubSeq(s, 1, Len(s) - 1)) ELSE s

strip(s) == rstrip(lstrip(s))

\* PoliMessage(to=meta.get("to", ""), type=meta.get("type", ""),
\*             id=str(meta.get("id", "")), body=body, raw_meta=meta)
PoliMessageText(meta, body) ==
    [to |-> IF meta.to = <<>> THEN "" ELSE meta.to[1],
     type |-> IF meta.type = <<>> THEN "" ELSE meta.type[1],
     id |-> IF meta.id = <<>> THEN "" ELSE meta.id[1].v,
     body |-> body,
     raw_meta |-> meta]

\* where the match of BLOCK_RE that starts at the opening marker s[o] ends its
\* metadata group: the first "}" that "]]" follows (the group is lazy)
MetaEnds(s, o) ==
    {j \in (o + 2)..(Len(s) - 1) : s[j] = RBRACE /\ s[j + 1] = RBRACKETS}

\* ... and its body group: the first closing marker after that
BodyEnds(s, j) == {k \in (j + 2)..Len(s) : s[k] = CLOSE}

MatchesAt(s, o) ==
    /\ s[o] = OPEN /\ o < Len(s) /\ s[o + 1] = LBRACE
    /\ MetaEnds(s, o) # {}
    /\ BodyEnds(s, Least(MetaEnds(s, o))) # {}

\* BLOCK_RE.finditer(buffer) from position i on: group(1) and group(2) of each match
RECURSIVE finditer_text(_, _)
finditer_text(s, i) ==
    LET starts == {o \in i..Len(s) : MatchesAt(s, o)} IN
    IF starts = {} THEN <<>>
    ELSE LET o == Least(starts)
             j == Least(MetaEnds(s, o))
             k == Least(BodyEnds(s, j))
         IN <<[meta_str |-> SubSeq(s, o + 1, j), body |-> SubSeq(s, j + 2, k - 1)]>>
                \o finditer_text(s, k + 1)

\* the try body of find_blocks on the matches ms
RECURSIVE ParsedText(_)
ParsedText(ms) ==
    IF ms = <<>> THEN <<>>
    ELSE LET meta == json_loads(Head(ms).meta_str) IN
         (IF meta # <<>> THEN <<PoliMessageText(meta[1], strip(Head(ms).body))>> ELSE <<>>)
             \o ParsedText(Tail(ms))

\* find_blocks(buffer)
find_blocks_text(s) ==
    LET bl == ParsedText(finditer_text(s, 1)) IN
    IF Len(bl) > 1 THEN <<bl[Len(bl)]>> ELSE bl

\* the quotation of a message in executer_prompt / review_prompt / instructions:
\* prose, the opening marker with json.dumps(raw_meta), the body on lines of its
\* own, the closing marker, prose
Quote(msg) ==
    <<CH, SP, OPEN>> \o json_dumps(msg.raw_meta) \o <<RBRACKETS, SP>> \o msg.body
        \o <<SP, CLOSE, SP, CH>>

\* the blocks an agent may write: metadata with or without each member, the id a
\* string or a number, an extra member whose string value holds braces and
\* brackets, written out or escaped, and a body with white space around it
NoteChars == {CH, RBRACE, RBRACKETS, ESC_RBRACE}

NoteTexts ==
    {<<>>} \cup {<<NOTE>> \o n \o <<ENDQ>> :
                    n \in UNION {[1..l -> NoteChars] : l \in 0..MaxNote}}

MetaTexts ==
    {<<LBRACE>> \o to \o ty \o id \o n \o <<RBRACE>> :
        to \in {<<>>, <<Member("to", EXECUTER)>>},
        ty \in {<<Member("type", "plan")>>, <<Member("type", "result")>>},
        id \in {<<>>, <<Member("id", "a")>>, <<Member("idnum", "7")>>},
        n \in NoteTexts}

Bodies == UNION {[1..l -> {SP, CH}] : l \in 0..MaxBody}

WireTexts ==
    {<<OPEN>> \o m \o <<RBRACKETS>> \o b \o <<CLOSE>> : m \in MetaTexts, b \in Bodies}

InitQuote ==
    /\ mode = "quote"
    /\ max_rounds = 1
    /\ pc = "wire"
    /\ buffer \in WireTexts
    /\ blocks = <<>>
    /\ pane = [p \in Party |-> <<>>]
    /\ STATE_TABLE = <<>>
    /\ seen_messages = {}
    /\ INTERRUPTED = FALSE
    /\ task_id = NoTask
    /\ round_count = 0
    /\ task_complete = FALSE
    /\ planner_msg = <<>>
    /\ result_msg = <<>>
    /\ elapsed = 0
    /\ last_nudge = 0
    /\ sent = [p \in Party |-> <<>>]
    /\ returned = <<>>
    /\ polled = {}
    /\ run = 0
    /\ emitted = 0
    /\ summary = ""
    /\ ret = <<>>
    /\ keys = [p \in Party |-> <<>>]
    /\ pending = <<>>
    /\ answered = 0

\* blocks = find_blocks(buffer), on what the agent wrote
wire_decode ==
    /\ pc = "wire"
    /\ blocks' = find_blocks_text(buffer)
    /\ pc' = "decoded_once"
    /\ UNCHANGED <<answered, keys, pending, mode, max_rounds, pane, STATE_TABLE, seen_messages, INTERRUPTED,
                   task_id, round_count, task_complete, planner_msg, result_msg,
                   elapsed, last_nudge, sent, returned, polled, run, emitted,
                   summary, ret, buffer>>

wire_decode_marking ==
    /\ pc = "decoded_once"
    /\ LET bl == find_blocks_text(buffer) IN
       /\ blocks' = IF bl # <<>> /\ bl = blocks THEN <<>> ELSE bl
       /\ seen_messages' = seen_messages \cup {<<bl[i].id, bl[i].type>> : i \in 1..Len(bl)}
    /\ pc' = "decoded_twice"
    /\ UNCHANGED <<answered, keys, pending, mode, max_rounds, pane, STATE_TABLE, INTERRUPTED,
                   task_id, round_count, task_complete, planner_msg, result_msg,
                   elapsed, last_nudge, sent, returned, polled, run, emitted,
                   summary, ret, buffer>>

\* blocks = find_blocks(buffer) once more, on the same text (the next poll)
wire_decode_again ==
    /\ pc = "decoded_once"
    /\ blocks' = find_blocks_text(buffer)
    /\ pc' = "decoded_twice"
    /\ UNCHANGED <<answered, keys, pending, mode, max_rounds, pane, STATE_TABLE, seen_messages, INTERRUPTED,
                   task_id, round_count, task_complete, planner_msg, result_msg,
                   elapsed, last_nudge, sent, returned, polled, run, emitted,
                   summary, ret, buffer>>

\* the engine builds the prompt that quotes the received message (planner_msg)
wire_quote ==
    /\ pc = "decoded_twice"
    /\ blocks # <<>>
    /\ planner_msg' = blocks
    /\ buffer' = Quote(blocks[1])
    /\ pc' = "quoted"
    /\ UNCHANGED <<answered, keys, pending, mode, max_rounds, pane, STATE_TABLE, seen_messages, INTERRUPTED,
                   task_id, round_count, task_complete, result_msg,
                   elapsed, last_nudge, sent, returned, polled, run, emitted,
                   summary, ret, blocks>>

\* blocks = find_blocks(buffer), on the prompt
wire_decode_quoted ==
    /\ pc = "quoted"
    /\ blocks' = find_blocks_text(buffer)
    /\ pc' = "requoted"
    /\ UNCHANGED <<answered, keys, pending, mode, max_rounds, pane, STATE_TABLE, seen_messages, INTERRUPTED,
                   task_id, round_count, task_complete, planner_msg, result_msg,
                   elapsed, last_nudge, sent, returned, polled, run, emitted,
                   summary, ret, buffer>>

NextQuote ==
    \/ wire_decode
    \/ wire_decode_again
    \/ wire_quote
    \/ wire_decode_quoted

SpecQuote == InitQuote /\ [][NextQuote]_vars

C32_QuoteRoundTrip ==
    pc = "requoted" =>
        /\ Len(blocks) = 1
        /\ blocks[1].to = planner_msg[1].to
        /\ blocks[1].type = planner_msg[1].type
        /\ blocks[1].id = planner_msg[1].id
        /\ blocks[1].body = planner_msg[1].body

(***************************************************************************)
(* Single-cycle routing, proto/poli_orchestrator.py (v1): route_once, with *)
(* its own find_blocks (every decodable block, in order) and its seen_ids, *)
(* a set of ids, kept in seen_messages.  polled holds every capture made:  *)
(* the pane and what it showed.                                            *)
(***************************************************************************)
\* v1 find_blocks: return blocks
find_blocks_v1(buf) == ParsedBlocks(BLOCK_RE(buf))

\* v1 wait_for_new_block, "for msg in blocks": the first block with an id not in
\* seen_ids and of the expected type, as <<msg>>, or <<>>
RECURSIVE once_first_new(_, _, _)
once_first_new(bl, seen_ids, expected_type) ==
    IF bl = <<>> THEN <<>>
    ELSE IF Head(bl).id # "" /\ Head(bl).id \notin seen_ids /\ Head(bl).type = expected_type
         THEN <<Head(bl)>>
         ELSE once_first_new(Tail(bl), seen_ids, expected_type)

\* route_once step 4, "for msg in blocks": seen_ids afterwards and the result found
RECURSIVE once_scan(_, _)
once_scan(bl, seen_ids) ==
    IF bl = <<>> THEN [seen |-> seen_ids, result |-> <<>>]
    ELSE LET msg == Head(bl) IN
         IF msg.id \in seen_ids THEN once_scan(Tail(bl), seen_ids)
         ELSE IF msg.type = "result"
              THEN [seen |-> seen_ids \cup {msg.id}, result |-> <<msg>>]
              ELSE once_scan(Tail(bl), seen_ids \cup {msg.id})

InitOnce ==
    /\ mode = "once"
    /\ max_rounds = 1
    /\ pc = "once_idle"
    /\ pane = [p \in Party |-> <<>>]
    /\ STATE_TABLE = <<>>
    /\ seen_messages = {}
    /\ INTERRUPTED = FALSE
    /\ task_id = NoTask
    /\ round_count = 0
    /\ task_complete = FALSE
    /\ planner_msg = <<>>
    /\ result_msg = <<>>
    /\ elapsed = 0
    /\ last_nudge = 0
    /\ sent = [p \in Party |-> <<>>]
    /\ returned = <<>>
    /\ polled = {}
    /\ run = 0
    /\ emitted = 0
    /\ summary = ""
    /\ ret = <<>>
    /\ keys = [p \in Party |-> <<>>]
    /\ pending = <<>>
    /\ answered = 0
    /\ buffer = <<>>
    /\ blocks = <<>>

\* route_once(user_prompt, task_id) up to the entry of wait_for_new_block
once_begin ==
    /\ pc = "once_idle"
    /\ \E t \in TaskIds : task_id' = t /\ sent' = send_keys(sent, PLANNER_PANE, Write("initial", t, <<>>))
    /\ seen_messages' = {}
    /\ run' = run + 1
    /\ elapsed' = 0
    /\ last_nudge' = 0
    /\ pc' = "once_pwait"
    /\ UNCHANGED <<answered, keys, pending, mode, max_rounds, pane, STATE_TABLE, INTERRUPTED, round_count,
                   task_complete, planner_msg, result_msg, returned, polled, emitted,
                   summary, ret, buffer, blocks>>

\* v1 wait_for_new_block(PLANNER_PANE, seen_ids, PLAN_TIMEOUT, "plan"): one pass
once_planner_poll ==
    /\ pc = "once_pwait"
    /\ TimeLeft(elapsed, PLAN_TIMEOUT)
    /\ polled' = polled \cup {<<PLANNER_PANE, capture_tail(PLANNER_PANE)>>}
    /\ LET found == once_first_new(find_blocks_v1(capture_tail(PLANNER_PANE)),
                                   seen_messages, "plan") IN
       IF found # <<>>
       THEN /\ planner_msg' = found
            /\ pc' = "once_pgot"
            /\ elapsed' = 0
            /\ last_nudge' = 0
            /\ UNCHANGED sent
       ELSE /\ sent' = IF NudgeDue(TRUE, PLAN_TIMEOUT)
                       THEN send_keys(sent, PLANNER_PANE, Write("nudge", task_id, <<>>))
                       ELSE sent
            /\ last_nudge' = IF NudgeDue(TRUE, PLAN_TIMEOUT) THEN elapsed ELSE last_nudge
            /\ elapsed' = elapsed + 1
            /\ UNCHANGED <<planner_msg, pc>>
    /\ UNCHANGED <<answered, keys, pending, mode, max_rounds, pane, STATE_TABLE, seen_messages, INTERRUPTED,
                   task_id, round_count, task_complete, result_msg, returned, run,
                   emitted, summary, ret, buffer, blocks>>

once_planner_timeout ==
    /\ pc = "once_pwait"
    /\ ~TimeLeft(elapsed, PLAN_TIMEOUT)
    /\ planner_msg' = <<>>
    /\ pc' = "once_pgot"
    /\ elapsed' = 0
    /\ last_nudge' = 0
    /\ UNCHANGED <<answered, keys, pending, mode, max_rounds, pane, STATE_TABLE, seen_messages, INTERRUPTED,
                   task_id, round_count, task_complete, result_msg, sent, returned,
                   polled, run, emitted, summary, ret, buffer, blocks>>

\* from "if not plan_msg" to the entry of the loop of step 4
once_after_planner ==
    /\ pc = "once_pgot"
    /\ IF planner_msg = <<>>
       THEN /\ ret' = <<FALSE>>
            /\ pc' = "once_done"
            /\ UNCHANGED <<seen_messages, sent>>
       ELSE /\ seen_messages' = seen_messages \cup {planner_msg[1].id}
            /\ sent' = send_keys(sent, EXECUTER_PANE,
                                 Write("forward", task_id, <<Key(planner_msg[1])>>))
            /\ pc' = "once_ewait"
            /\ UNCHANGED ret
    /\ elapsed' = 0
    /\ UNCHANGED <<answered, keys, pending, mode, max_rounds, pane, STATE_TABLE, INTERRUPTED, task_id,
                   round_count, task_complete, planner_msg, result_msg, last_nudge,
                   returned, polled, run, emitted, summary, buffer, blocks>>

\* one pass of "while time.time() - exec_start < EXEC_TIMEOUT"
once_executer_poll ==
    /\ pc = "once_ewait"
    /\ TimeLeft(elapsed, EXEC_TIMEOUT)
    /\ polled' = polled \cup {<<EXECUTER_PANE, capture_tail(EXECUTER_PANE)>>}
    /\ LET scan == once_scan(find_blocks_v1(capture_tail(EXECUTER_PANE)), seen_messages) IN
       /\ seen_messages' = scan.seen
       /\ result_msg' = scan.result
       /\ IF scan.result # <<>>
          THEN pc' = "once_egot" /\ elapsed' = 0
          ELSE pc' = pc /\ elapsed' = elapsed + 1
    /\ UNCHANGED <<answered, keys, pending, mode, max_rounds, pane, STATE_TABLE, INTERRUPTED, task_id,
                   round_count, task_complete, planner_msg, last_nudge, sent, returned,
                   run, emitted, summary, ret, buffer, blocks>>

once_executer_timeout ==
    /\ pc = "once_ewait"
    /\ ~TimeLeft(elapsed, EXEC_TIMEOUT)
    /\ result_msg' = <<>>
    /\ pc' = "once_egot"
    /\ elapsed' = 0
    /\ UNCHANGED <<answered, keys, pending, mode, max_rounds, pane, STATE_TABLE, seen_messages, INTERRUPTED,
                   task_id, round_count, task_complete, planner_msg, last_nudge, sent,
                   returned, polled, run, emitted, summary, ret, buffer, blocks>>

\* from "if not result_msg" to the return
once_after_executer ==
    /\ pc = "once_egot"
    /\ IF result_msg = <<>>
       THEN /\ ret' = <<FALSE>>
            /\ UNCHANGED sent
       ELSE /\ sent' = send_keys(sent, PLANNER_PANE,
                                 Write("summary", task_id, <<Key(result_msg[1])>>))
            /\ ret' = <<TRUE>>
    /\ pc' = "once_done"
    /\ UNCHANGED <<answered, keys, pending, mode, max_rounds, pane, STATE_TABLE, seen_messages, INTERRUPTED,
                   task_id, round_count, task_complete, planner_msg, result_msg, elapsed,
                   last_nudge, returned, polled, run, emitted, summary, buffer, blocks>>

NextOnce ==
    \/ once_begin
    \/ once_planner_poll
    \/ once_planner_timeout
    \/ once_after_planner
    \/ once_executer_poll
    \/ once_executer_timeout
    \/ once_after_executer
    \/ PlannerRenders
    \/ ExecuterRenders

SpecOnce == InitOnce /\ [][NextOnce]_vars

\* a capture of the Executer pane showed a result block carrying the task id
ResultWithTaskIdPolled ==
    \E c \in polled :
        /\ c[1] = EXECUTER_PANE
        /\ \E i \in 1..Len(c[2]) : c[2][i] = Blk(PLANNER, "result", task_id)

\* C33 (single cycle completes): when route_once accepted a plan block whose id
\* is the task id and a poll of the Executer wait then found a result block
\* with that same id in the pane, route_once returns True.
C33_OnceCompletes ==
    (/\ pc = "once_done"
     /\ planner_msg # <<>> /\ planner_msg[1].id = task_id
     /\ ResultWithTaskIdPolled)
        => ret = <<TRUE>>

(***************************************************************************)
(* The dialogue with an Executer that follows its instructions and panes   *)
(* that echo what the engine types into them.  Executer answers each       *)
(* forwarded instruction, within the execution timeout, with one result    *)
(* block carrying the id the instruction names: the Planner block's own id *)
(* in Monitor mode, <task id>-R<round> in the continuous dialogue.  The    *)
(* echo of a prompt shows the block it quotes, before the agent's answer.  *)
(***************************************************************************)
\* f"{task_id}-R{round_count}"
RoundId(t, r) == t \o "-R" \o ToString(r)

\* the instructions forwarded to Executer so far
Instructions == Count(sent[EXECUTER], LAMBDA w : w.what = "forward")

\* the id the instruction being waited on tells Executer to use
InstructedId ==
    IF pc = "mon_ewait" THEN planner_msg[1].id ELSE RoundId(task_id, round_count)

ExecuterAnswers ==
    /\ pc \in {"rc_ewait", "mon_ewait"}
    /\ TimeLeft(elapsed, EXEC_TIMEOUT)
    /\ answered < Instructions
    /\ emitted < MaxEmit
    /\ pane' = [pane EXCEPT ![EXECUTER] = Render(@, Blk(PLANNER, "result", InstructedId))]
    /\ answered' = answered + 1
    /\ emitted' = emitted + 1
    /\ UNCHANGED <<keys, pending, mode, max_rounds, pc, STATE_TABLE, seen_messages, INTERRUPTED,
                   task_id, round_count, task_complete, planner_msg, result_msg, elapsed,
                   last_nudge, sent, returned, polled, run, summary, ret, buffer, blocks>>

\* Executer's pane shows the prompt typed into it: the Planner block it quotes
ExecuterEchoes ==
    /\ pc \in {"rc_ewait", "mon_ewait"}
    /\ answered < Instructions
    /\ emitted < MaxEmit
    /\ pane' = [pane EXCEPT ![EXECUTER] =
                   Render(@, Blk(planner_msg[1].to, planner_msg[1].type, planner_msg[1].id))]
    /\ emitted' = emitted + 1
    /\ UNCHANGED <<answered, keys, pending, mode, max_rounds, pc, STATE_TABLE, seen_messages,
                   INTERRUPTED, task_id, round_count, task_complete, planner_msg, result_msg,
                   elapsed, last_nudge, sent, returned, polled, run, summary, ret,
                   buffer, blocks>>

\* Planner's pane shows the review prompt typed into it: the result block it quotes
PlannerEchoes ==
    /\ pc \in {"rc_pwait", "mon_pwait"}
    /\ result_msg # <<>>
    /\ emitted < MaxEmit
    /\ pane' = [pane EXCEPT ![PLANNER] =
                   Render(@, Blk(result_msg[1].to, result_msg[1].type, result_msg[1].id))]
    /\ emitted' = emitted + 1
    /\ UNCHANGED <<answered, keys, pending, mode, max_rounds, pc, STATE_TABLE, seen_messages,
                   INTERRUPTED, task_id, round_count, task_complete, planner_msg, result_msg,
                   elapsed, last_nudge, sent, returned, polled, run, summary, ret,
                   buffer, blocks>>

InitObedient ==
    /\ mode \in {"continuous", "monitor"}
    /\ max_rounds = MaxRounds
    /\ pc = IF mode = "monitor" THEN "mon_loop" ELSE "idle"
    /\ pane = [p \in Party |-> <<>>]
    /\ STATE_TABLE = <<>>
    /\ seen_messages = {}
    /\ INTERRUPTED = FALSE
    /\ task_id = NoTask
    /\ round_count = 0
    /\ task_complete = FALSE
    /\ planner_msg = <<>>
    /\ result_msg = <<>>
    /\ elapsed = 0
    /\ last_nudge = 0
    /\ sent = [p \in Party |-> <<>>]
    /\ returned = <<>>
    /\ polled = {}
    /\ run = IF mode = "monitor" THEN 1 ELSE 0
    /\ emitted = 0
    /\ summary = ""
    /\ ret = <<>>
    /\ keys = [p \in Party |-> <<>>]
    /\ pending = <<>>
    /\ answered = 0
    /\ buffer = <<>>
    /\ blocks = <<>>

NextObedient ==
    \/ route_continuous_begin
    \/ rc_loop
    \/ rc_planner_poll
    \/ rc_planner_timeout
    \/ rc_after_planner
    \/ rc_executer_poll
    \/ rc_executer_timeout
    \/ rc_after_executer
    \/ rc_finish
    \/ interactive_exit
    \/ mon_loop
    \/ mon_planner_poll
    \/ mon_planner_timeout
    \/ mon_after_planner
    \/ mon_forward
    \/ mon_executer_poll
    \/ mon_executer_timeout
    \/ mon_after_executer
    \/ PlannerRenders
    \/ PlannerEchoes
    \/ ExecuterEchoes
    \/ ExecuterAnswers

SpecObedient == InitObedient /\ [][NextObedient]_vars

\* C34 (later rounds in Monitor mode): when the Executer wait of a Monitor round
\* ends and Executer has answered the instruction of that round with a result
\* block carrying the Planner block's id, the wait hands back a result (the
\* round does not end in exec_timeout).
C34_LaterRoundsAccepted ==
    (pc = "mon_egot" /\ answered = Instructions) => result_msg # <<>>

\* the block the Executer pane decodes to is the Planner block the engine quoted
ExecuterEchoSelected ==
    /\ pc \in {"rc_ewait", "mon_ewait"}
    /\ find_blocks(pane[EXECUTER]) = planner_msg

\* the block the Planner pane decodes to is the Executer result the engine quoted
PlannerEchoSelected ==
    /\ pc \in {"rc_pwait", "mon_pwait"}
    /\ result_msg # <<>>
    /\ find_blocks(pane[PLANNER]) = result_msg

\* C35 (echoes are not messages): with panes that echo the engine's prompts, no
\* wait hands back a block the engine quoted into that party's pane, and a poll
\* that finds the quoted block selected records nothing: the history, the seen
\* set and the returned messages stay as they are.
C35_EchoNotAccepted ==
    /\ [](\A i \in 1..Len(returned) : \A k \in 1..Len(sent[returned[i].from]) :
             sent[returned[i].from][k].quote # <<returned[i].key>>)
    /\ [][((ExecuterEchoSelected \/ PlannerEchoSelected) /\ emitted' = emitted) =>
             /\ returned' = returned
             /\ seen_messages' = seen_messages
             /\ STATE_TABLE' = STATE_TABLE]_vars

\* C35 witness: the Planner wait handed back Planner's next block from a pane
\* that shows the echo of the quoted Executer result before it (a result with
\* an id that only the echo puts into Planner's pane).
C35_Witness ==
    /\ pc \in {"rc_pgot", "mon_pgot"}
    /\ planner_msg # <<>> /\ result_msg # <<>>
    /\ result_msg[1].id \in {"a", RoundId("a", 1)}
    /\ Len(pane[PLANNER]) = 2
    /\ pane[PLANNER][1] = Blk(result_msg[1].to, result_msg[1].type, result_msg[1].id)
    /\ pane[PLANNER][2] = Blk(planner_msg[1].to, planner_msg[1].type, planner_msg[1].id)
    /\ returned[Len(returned)].key = Key(planner_msg[1])
    /\ Len(returned) >= 3

\* C36 (one instruction per accepted Planner block): every instruction written
\* to Executer quotes a Planner block of kind plan, continue or revision that a
\* Planner wait handed back, no block is quoted by two instructions, and no
\* instruction quotes a block of kind complete.
C36_ForwardCaused ==
    \A k \in 1..Len(sent[EXECUTER]) :
        LET w == sent[EXECUTER][k] IN
        w.what = "forward" =>
            /\ w.quote # <<>>
            /\ w.quote[1][2] \in {"plan", "continue", "revision"}
            /\ \E i \in 1..Len(returned) :
                  returned[i].from = PLANNER /\ returned[i].key = w.quote[1]
            /\ Forwards(w.quote[1]) = 1

\* C37 (round budget): the round counter of every task, and the round count of
\* the continuous dialogue, is at least 0 and at most max_rounds.
C37_RoundWithinBudget ==
    /\ 0 <= round_count /\ round_count <= max_rounds
    /\ \A t \in DOMAIN STATE_TABLE :
          0 <= STATE_TABLE[t].round /\ STATE_TABLE[t].round <= max_rounds

\* C37 witness: a task that has used its whole budget was refused one more
\* round in Monitor mode, and a continuous dialogue has ended after its last
\* round was played to the end.
C37_Witness ==
    \/ /\ mode = "monitor"
       /\ \E t \in DOMAIN STATE_TABLE :
             STATE_TABLE[t].round = max_rounds /\ STATE_TABLE[t].status = "max_rounds"
    \/ /\ mode = "continuous"
       /\ pc = "rc_end" /\ round_count = max_rounds
       /\ result_msg # <<>> /\ ~task_complete

\* C38 (return value): when route_continuous has returned, it returned True if
\* the status recorded for its task is completed, and False if it is anything
\* else.
C38_ReturnsCompleted ==
    (pc = "idle" /\ ret # <<>>) =>
        (ret[1] <=> STATE_TABLE[task_id].status = "completed")

\* C38 witness: route_continuous returned False although every round of the
\* budget was played to its end (the status is not completed), and no wait
\* timed out.
C38_Witness ==
    /\ pc = "idle" /\ ret = <<FALSE>>
    /\ round_count = max_rounds
    /\ result_msg # <<>>
    /\ STATE_TABLE[task_id].status \notin {"completed", "timeout", "exec_timeout"}

\* the history of task t
History(t) == STATE_TABLE[t].messages

\* C39 (history): no history holds two messages with the same (id, kind) pair,
\* every message of every history has its (id, kind) pair in the seen set, and
\* a step only appends to a history: the messages it held stay, in order.
C39_HistoryWellFormed ==
    /\ [](\A t \in DOMAIN STATE_TABLE :
             /\ \A i, j \in 1..Len(History(t)) :
                   i < j => Key(History(t)[i]) # Key(History(t)[j])
             /\ \A i \in 1..Len(History(t)) : Key(History(t)[i]) \in seen_messages)
    /\ [][\A t \in DOMAIN STATE_TABLE :
             /\ t \in DOMAIN STATE_TABLE'
             /\ Len(STATE_TABLE'[t].messages) >= Len(History(t))
             /\ SubSeq(STATE_TABLE'[t].messages, 1, Len(History(t))) = History(t)]_vars

\* this step is one iteration of the loop of the Executer wait
ExecuterPoll == PollStep /\ pc \in {"rc_ewait", "mon_ewait"}

\* C40 (status blocks): a poll of the Executer wait that decodes a new block
\* records it in the task's history and in the seen set; if it is a status
\* block the wait goes on, nothing is handed back and nothing is written; if it
\* is a result or error block, whatever status blocks came before, the wait
\* hands it back.  The wait hands back result and error blocks only, and only
\* those are relayed to Planner.
C40_StatusKeepsWaiting ==
    /\ [][ExecuterPoll =>
             LET bl == find_blocks(pane[EXECUTER]) IN
             (bl # <<>> /\ Key(bl[1]) \notin seen_messages) =>
                /\ Key(bl[1]) \in seen_messages'
                /\ STATE_TABLE'[task_id].messages = Append(History(task_id), bl[1])
                /\ bl[1].type = "status" =>
                      /\ pc' = pc
                      /\ returned' = returned
                      /\ result_msg' = result_msg
                      /\ sent' = sent
                /\ bl[1].type \in {"result", "error"} =>
                      /\ pc' # pc
                      /\ result_msg' = bl
                      /\ Len(returned') = Len(returned) + 1
                      /\ returned'[Len(returned')].from = EXECUTER
                      /\ returned'[Len(returned')].key = Key(bl[1])]_vars
    /\ [](\A i \in 1..Len(returned) :
             returned[i].from = EXECUTER => returned[i].key[2] \in {"result", "error"})
    /\ [](\A k \in 1..Len(sent[PLANNER]) :
             sent[PLANNER][k].what = "review" =>
                /\ sent[PLANNER][k].quote # <<>>
                /\ sent[PLANNER][k].quote[1][2] \in {"result", "error"})

\* C40 witness: the Executer wait handed back a result block after it had
\* recorded a status block with the same id in the history of the task.
C40_Witness ==
    /\ pc \in {"rc_egot", "mon_egot"}
    /\ result_msg # <<>>
    /\ result_msg[1].type = "result"
    /\ \E i, j \in 1..Len(History(task_id)) :
          /\ i < j
          /\ History(task_id)[i].type = "status"
          /\ History(task_id)[i].id = result_msg[1].id
          /\ History(task_id)[j] = result_msg[1]

====
